---- MODULE Spec2Model ----
(***************************************************************************)
(* A model of panda-parse (src/index.js): the Lexer (scanner), the         *)
(* grammar expressions (ShapeExp / Shape) and the parse drivers ($AST,     *)
(* $AST_LEFT_RECURSIVE, $INDENT_BLOCK).                                    *)
(*                                                                         *)
(* Offsets into the input are 0-based as in the source; the input is a    *)
(* sequence of one-character strings, so the character at offset k is      *)
(* str[k + 1].                                                             *)
(***************************************************************************)
EXTENDS Integers, Sequences, FiniteSets, TLC

VARIABLES str, cursor, tasteCursor, cursorStack, resolved, last

vars == <<str, cursor, tasteCursor, cursorStack, resolved, last>>

(***************************************************************************)
(* Bounds of the model.                                                    *)
(***************************************************************************)
\* longest input enumerated over LexAlphabet
MaxLen == 2
\* longest input enumerated over ParseAlphabet
MaxParseLen == 3
\* deepest cursorStack explored by pushCursor
MaxStack == 1
\* how far past the end of the input eat is followed (a RegExp without the
\* sticky flag matches before the cursor and still advances it)
MaxOver == 0
\* deepest cursorStack explored when only the cursor is assigned, pushed and
\* popped
MaxDepth == 2
\* longest author list passed to new Shape(...)
MaxItems == 3
\* how far past the end of the input the cursor is set before taste and eat
MaxBeyond == 2

(***************************************************************************)
(* JavaScript strings.                                                     *)
(***************************************************************************)
\* the value of str[k] for an index outside the string
Undef == "undefined"

CharAt(s, k) == IF k >= 0 /\ k < Len(s) THEN s[k + 1] ELSE Undef

\* s.slice(a, b) for 0 <= a, b
Slice(s, a, b) ==
  LET lo == IF a < 0 THEN 0 ELSE IF a > Len(s) THEN Len(s) ELSE a
      hi == IF b < 0 THEN 0 ELSE IF b > Len(s) THEN Len(s) ELSE b
  IN IF hi <= lo THEN <<>> ELSE SubSeq(s, lo + 1, hi)

\* the characters String.prototype.trim and the regex classes \s / \S treat
\* as white space (of the characters the model uses)
IsSpaceChar(c) == c \in {" ", "\n", "\t", "\r"}

IsDigit(c) == c \in {"0", "1", "2", "3", "4", "5", "6", "7", "8", "9"}

\* number of leading characters of s, from offset k on, that satisfy the class
RECURSIVE RunOfSpaces(_, _)
RunOfSpaces(s, k) == IF CharAt(s, k) = " " THEN 1 + RunOfSpaces(s, k + 1) ELSE 0

RECURSIVE RunOfDigits(_, _)
RunOfDigits(s, k) == IF IsDigit(CharAt(s, k)) THEN 1 + RunOfDigits(s, k + 1) ELSE 0

RECURSIVE RunOfWhite(_, _)
RunOfWhite(s, k) ==
  IF k < Len(s) /\ IsSpaceChar(CharAt(s, k)) THEN 1 + RunOfWhite(s, k + 1) ELSE 0

RECURSIVE RunOfNonWhite(_, _)
RunOfNonWhite(s, k) ==
  IF k < Len(s) /\ ~IsSpaceChar(CharAt(s, k)) THEN 1 + RunOfNonWhite(s, k + 1) ELSE 0

RECURSIVE RunToNewline(_, _)
RunToNewline(s, k) ==
  IF k < Len(s) /\ CharAt(s, k) \notin {"\n", "\r"} THEN 1 + RunToNewline(s, k + 1) ELSE 0

\* s.trim().length
RECURSIVE TrailingWhite(_)
TrailingWhite(s) ==
  IF Len(s) > 0 /\ IsSpaceChar(s[Len(s)]) THEN 1 + TrailingWhite(SubSeq(s, 1, Len(s) - 1)) ELSE 0

TrimLength(s) ==
  LET lead == RunOfWhite(s, 0)
  IN IF lead = Len(s) THEN 0 ELSE Len(s) - lead - TrailingWhite(s)

\* s.trimEnd().length
TrimEndLength(s) == Len(s) - TrailingWhite(s)

\* s.lastIndexOf("\n", from)
RECURSIVE LastNewlineFrom(_, _)
LastNewlineFrom(s, k) ==
  IF k < 0 THEN -1
  ELSE IF CharAt(s, k) = "\n" THEN k
  ELSE LastNewlineFrom(s, k - 1)

LastIndexOfNewline(s, from) ==
  LET f == IF from < 0 THEN 0 ELSE IF from > Len(s) - 1 THEN Len(s) - 1 ELSE from
  IN LastNewlineFrom(s, f)

\* the index (1-based) of the first "\n" of s after index k, 0 when there is
\* none
NextNewline(s, k) ==
  IF \E j \in (k + 1)..Len(s) : s[j] = "\n"
    THEN CHOOSE j \in (k + 1)..Len(s) :
           s[j] = "\n" /\ \A i \in (k + 1)..(j - 1) : s[i] # "\n"
    ELSE 0

\* s.split("\n"): the lines of s from index k on
RECURSIVE SplitLines(_, _)
\* the line that starts after offset k and the lines after it, with j what
\* NextNewline(s, k) returned
SplitAt(s, k, j) ==
  IF j = 0 THEN <<SubSeq(s, k + 1, Len(s))>>
  ELSE <<SubSeq(s, k + 1, j - 1)>> \o SplitLines(s, j)

SplitLines(s, k) == SplitAt(s, k, NextNewline(s, k))

(***************************************************************************)
(* Arguments of taste / eat: any JavaScript value.  A RegExp is modelled   *)
(* by what exec does with it: src names its body, caret says whether the   *)
(* source starts with "^", y and g are the sticky and global flags.        *)
(***************************************************************************)
Arg(t, s, src, caret, y, g, n) ==
  [t |-> t, s |-> s, src |-> src, caret |-> caret, y |-> y, g |-> g, n |-> n]

JSNull == Arg("null", <<>>, "", FALSE, FALSE, FALSE, 0)
JSUndefined == Arg("undefined", <<>>, "", FALSE, FALSE, FALSE, 0)
JSFalse == Arg("boolean", <<>>, "", FALSE, FALSE, FALSE, 0)
JSTrue == Arg("boolean", <<>>, "", FALSE, FALSE, FALSE, 1)
JSNumber(n) == Arg("number", <<>>, "", FALSE, FALSE, FALSE, n)
Lit(s) == Arg("string", s, "", FALSE, FALSE, FALSE, 0)
\* a RegExp whose body is the literal text s, e.g. /ab/
ReLit(s, y, g) == Arg("regexp", s, "lit", FALSE, y, g, 0)
\* a RegExp with a named body: "d+" is \d+, "S" is \S, "S+" is \S+,
\* "s+" is \s+, ".*" is .*, "ws" is (?:[ ]+\n?|\n), "empty" is (?:)
Re(src, caret, y, g) == Arg("regexp", <<>>, src, caret, y, g, 0)

\* const WHITESPACE_REGEX = /(?:[ ]+\n?|\n)/y
WHITESPACE_REGEX == Re("ws", FALSE, TRUE, FALSE)

\* !x taken to hold of null and undefined only
FalsyNullish(p) == p.t \in {"null", "undefined"}

\* !x
Falsy(p) ==
  \/ p.t \in {"null", "undefined"}
  \/ p.t = "boolean" /\ p.n = 0
  \/ p.t = "number" /\ p.n = 0
  \/ p.t = "string" /\ Len(p.s) = 0

\* Lexer.isLexable
isLexable(p) == p.t = "string" \/ p.t = "regexp"

\* length of the match of the regex body anchored at offset i, -1 if none
ReLen(p, s, i) ==
  CASE p.src = "lit" ->
         IF \A j \in 0..(Len(p.s) - 1) : p.s[j + 1] = CharAt(s, i + j) THEN Len(p.s) ELSE -1
    [] p.src = "d+" -> (IF RunOfDigits(s, i) > 0 THEN RunOfDigits(s, i) ELSE -1)
    [] p.src = "S" -> (IF RunOfNonWhite(s, i) > 0 THEN 1 ELSE -1)
    [] p.src = "S+" -> (IF RunOfNonWhite(s, i) > 0 THEN RunOfNonWhite(s, i) ELSE -1)
    [] p.src = "s+" -> (IF RunOfWhite(s, i) > 0 THEN RunOfWhite(s, i) ELSE -1)
    [] p.src = ".*" -> RunToNewline(s, i)
    [] p.src = "ws" ->
         (IF RunOfSpaces(s, i) > 0
            THEN RunOfSpaces(s, i) + (IF CharAt(s, i + RunOfSpaces(s, i)) = "\n" THEN 1 ELSE 0)
            ELSE IF CharAt(s, i) = "\n" THEN 1 ELSE -1)
    [] OTHER -> 0

\* exec with a lastIndex past the end of s taken for 0
ExecWraps(p, s, lastIndex) ==
  LET li == IF p.y \/ p.g THEN (IF lastIndex < 0 \/ lastIndex > Len(s) THEN 0 ELSE lastIndex) ELSE 0
      cand == IF p.y THEN {li} ELSE li..Len(s)
      hits == {i \in cand : ReLen(p, s, i) >= 0 /\ (p.caret => i = 0)}
  IN IF hits = {} THEN [found |-> FALSE, index |-> 0, value |-> <<>>]
     ELSE LET i == CHOOSE h \in hits : \A h2 \in hits : h <= h2
          IN [found |-> TRUE, index |-> i, value |-> Slice(s, i, i + ReLen(p, s, i))]

\* RegExp.prototype.exec(s) with lastIndex set: sticky matches at lastIndex
\* only, global searches from lastIndex on, otherwise the search starts at
\* 0; a leading "^" (no m flag) allows a match at offset 0 only.
Exec(p, s, lastIndex) ==
  LET li == IF p.y \/ p.g THEN (IF lastIndex < 0 THEN 0 ELSE lastIndex) ELSE 0
      cand == IF li > Len(s) THEN {}
              ELSE IF p.y THEN {li}
              ELSE li..Len(s)
      hits == {i \in cand : ReLen(p, s, i) >= 0 /\ (p.caret => i = 0)}
  IN IF hits = {} THEN [found |-> FALSE, index |-> 0, value |-> <<>>]
     ELSE LET i == CHOOSE h \in hits : \A h2 \in hits : h <= h2
          IN [found |-> TRUE, index |-> i, value |-> Slice(s, i, i + ReLen(p, s, i))]

(***************************************************************************)
(* Values produced by the parser: tokens and nodes (and null / undefined). *)
(* One record shape serves all of them; T tells them apart.  A node keeps  *)
(* its children (exps) and the token list its constructor computed.        *)
(***************************************************************************)
\* shapeExp is the property validate reads, set on missing tokens; the copy
\* ShapeExp.parse attaches to each result is read by Token.s only
Item(T, name, exps, tokens, value, start, end, line, col, indent, isMissing) ==
  [T |-> T, name |-> name, exps |-> exps, tokens |-> tokens, value |-> value,
   start |-> start, end |-> end, line |-> line, col |-> col, indent |-> indent,
   isMissing |-> isMissing, shapeExp |-> JSUndefined]

Null == Item("null", "", <<>>, <<>>, <<>>, 0, 0, 0, 0, 0, FALSE)
Undefined == Item("undefined", "", <<>>, <<>>, <<>>, 0, 0, 0, 0, 0, FALSE)

\* new Token({value, start, end, line, col, indent}); an undefined indent
\* takes the default 0
Token(value, start, end, line, col, indent) ==
  Item("token", "", <<>>, <<>>, value, start, end, line, col, indent, FALSE)

Truthy(v) == v.T \in {"token", "node"}

\* Token.isWhiteSpace: !this.text.trim().length
isWhiteSpace(t) == TrimLength(t.value) = 0

(***************************************************************************)
(* The Lexer.  A lexer value L carries str, cursor, tasteCursor and        *)
(* cursorStack.  It also carries what else a call in progress can change:  *)
(* resolved, the Lazy expressions already rewritten in place; thrown, set  *)
(* once a TypeError has been raised; diverged, set when a loop of the      *)
(* source would run forever.                                               *)
(***************************************************************************)
Lexer(s) ==
  [str |-> s, cursor |-> 0, tasteCursor |-> 0, cursorStack |-> <<>>,
   resolved |-> {}, thrown |-> FALSE, diverged |-> FALSE]

lines(s) == SplitLines(s, 0)

\* lineOffsets: for each line [start, end]
RECURSIVE LineOffsetsFrom(_, _, _)
LineOffsetsFrom(ls, i, c) ==
  IF i > Len(ls) THEN <<>>
  ELSE <<(<<c, c + Len(ls[i])>>)>> \o LineOffsetsFrom(ls, i + 1, c + Len(ls[i]) + 1)

lineOffsets(s) == LineOffsetsFrom(lines(s), 1, 0)

\* lineIndents: l.length - l.trimStart().length
lineIndents(s) == LET ls == lines(s) IN [i \in 1..Len(ls) |-> RunOfWhite(ls[i], 0)]

\* binarySearch with a callback that takes a cursor at the end of a line to
\* lie after the line
RECURSIVE binarySearchEndExcluded(_, _, _, _)
binarySearchEndExcluded(offsets, c, low, high) ==
  IF low > high THEN -1
  ELSE LET mid == (low + high) \div 2
           comparison == IF c < offsets[mid + 1][1] THEN -1
                         ELSE IF c >= offsets[mid + 1][2] THEN 1
                         ELSE 0
       IN IF comparison = 0 THEN mid
          ELSE IF comparison < 0 THEN binarySearchEndExcluded(offsets, c, low, mid - 1)
          ELSE binarySearchEndExcluded(offsets, c, mid + 1, high)

\* Array.prototype.binarySearch with the callback of currentLine
RECURSIVE binarySearch(_, _, _, _)
binarySearch(offsets, c, low, high) ==
  IF low > high THEN -1
  ELSE LET mid == (low + high) \div 2
           comparison == IF c < offsets[mid + 1][1] THEN -1
                         ELSE IF c > offsets[mid + 1][2] THEN 1
                         ELSE 0
       IN IF comparison = 0 THEN mid
          ELSE IF comparison < 0 THEN binarySearch(offsets, c, low, mid - 1)
          ELSE binarySearch(offsets, c, mid + 1, high)

\* binarySearch(this.lineOffsets, ...) over the whole of the array
LineOf(offsets, c) == binarySearch(offsets, c, 0, Len(offsets) - 1)

currentLine(L) == LineOf(lineOffsets(L.str), L.cursor)

\* lineIndents[line]; -1 stands for undefined (an index outside the array)
lineIndent(s, line) ==
  LET indents == lineIndents(s)
  IN IF line + 1 \in DOMAIN indents THEN indents[line + 1] ELSE -1

lineStart(s, line) ==
  LET l == IF line >= Len(lines(s)) THEN Len(lines(s)) - 1 ELSE line
  IN lineOffsets(s)[l + 1][1]

lineEnd(s, line) ==
  LET l == IF line >= Len(lines(s)) THEN Len(lines(s)) - 1 ELSE line
  IN lineOffsets(s)[l + 1][2]

\* linesInRange with a line that only touches the range left out
RECURSIVE linesInRangeStrict(_, _, _, _)
linesInRangeStrict(s, start, end, i) ==
  IF i >= Len(lineOffsets(s)) THEN <<>>
  ELSE (IF lineOffsets(s)[i + 1][1] < end /\ lineOffsets(s)[i + 1][2] > start
          THEN <<i>> ELSE <<>>) \o linesInRangeStrict(s, start, end, i + 1)

\* Lexer.linesInRange: the loop from line i on
RECURSIVE linesInRange(_, _, _, _)
linesInRange(s, start, end, i) ==
  IF i >= Len(lineOffsets(s)) THEN <<>>
  ELSE (IF lineOffsets(s)[i + 1][1] <= end /\ lineOffsets(s)[i + 1][2] >= start
          THEN <<i>> ELSE <<>>) \o linesInRange(s, start, end, i + 1)

hasMoreToLex(L) == L.cursor < Len(L.str)

pushCursor(L) == [L EXCEPT !.cursorStack = Append(L.cursorStack, L.cursor)]

\* popCursor taking the oldest snapshot instead of the newest
popCursorOldest(L) ==
  IF Len(L.cursorStack) > 0
    THEN [L EXCEPT !.cursor = L.cursorStack[1],
                   !.cursorStack = SubSeq(L.cursorStack, 2, Len(L.cursorStack))]
    ELSE L

popCursor(L) ==
  IF Len(L.cursorStack) > 0
    THEN [L EXCEPT !.cursor = L.cursorStack[Len(L.cursorStack)],
                   !.cursorStack = SubSeq(L.cursorStack, 1, Len(L.cursorStack) - 1)]
    ELSE L

\* taste with the cursor moved along with tasteCursor on a match
tasteMovesCursor(L, regex) ==
  IF Falsy(regex) THEN [ok |-> FALSE, value |-> <<>>, L |-> L]
  ELSE
    LET L1 == [L EXCEPT !.tasteCursor = L.cursor]
        hit == IF regex.t = "string"
                 THEN [found |-> \A i \in 0..(Len(regex.s) - 1) :
                                    regex.s[i + 1] = CharAt(L.str, L1.tasteCursor + i),
                       value |-> regex.s]
               ELSE IF regex.t = "regexp"
                 THEN [found |-> Exec(regex, L.str, L1.tasteCursor).found,
                       value |-> Exec(regex, L.str, L1.tasteCursor).value]
               ELSE [found |-> FALSE, value |-> <<>>]
    IN IF hit.found
         THEN [ok |-> TRUE, value |-> hit.value,
               L |-> [L1 EXCEPT !.tasteCursor = L1.tasteCursor + Len(hit.value),
                                !.cursor = L1.tasteCursor + Len(hit.value)]]
         ELSE [ok |-> FALSE, value |-> <<>>, L |-> L1]

\* the closure eatLeadingWhitespace of taste, which taste never calls
RECURSIVE eatLeadingWhitespace(_, _)
eatLeadingWhitespace(s, k) ==
  IF CharAt(s, k) = " " \/ CharAt(s, k) = "\n" THEN eatLeadingWhitespace(s, k + 1) ELSE k

\* taste with eatLeadingWhitespace called before the match
tasteSkipsWhitespace(L, regex) ==
  IF Falsy(regex) THEN [ok |-> FALSE, value |-> <<>>, L |-> L]
  ELSE
    LET L1 == [L EXCEPT !.tasteCursor = eatLeadingWhitespace(L.str, L.cursor)]
        hit == IF regex.t = "string"
                 THEN [found |-> \A i \in 0..(Len(regex.s) - 1) :
                                    regex.s[i + 1] = CharAt(L.str, L1.tasteCursor + i),
                       value |-> regex.s]
               ELSE IF regex.t = "regexp"
                 THEN [found |-> Exec(regex, L.str, L1.tasteCursor).found,
                       value |-> Exec(regex, L.str, L1.tasteCursor).value]
               ELSE [found |-> FALSE, value |-> <<>>]
    IN IF hit.found
         THEN [ok |-> TRUE, value |-> hit.value,
               L |-> [L1 EXCEPT !.tasteCursor = L1.tasteCursor + Len(hit.value)]]
         ELSE [ok |-> FALSE, value |-> <<>>, L |-> L1]

\* taste with the comparison of a literal started at its second character
tasteSkipsFirstChar(L, regex) ==
  IF Falsy(regex) THEN [ok |-> FALSE, value |-> <<>>, L |-> L]
  ELSE
    LET L1 == [L EXCEPT !.tasteCursor = L.cursor]
        hit == IF regex.t = "string"
                 THEN [found |-> \A i \in 1..(Len(regex.s) - 1) :
                                    regex.s[i + 1] = CharAt(L.str, L1.tasteCursor + i),
                       value |-> regex.s]
               ELSE IF regex.t = "regexp"
                 THEN [found |-> Exec(regex, L.str, L1.tasteCursor).found,
                       value |-> Exec(regex, L.str, L1.tasteCursor).value]
               ELSE [found |-> FALSE, value |-> <<>>]
    IN IF hit.found
         THEN [ok |-> TRUE, value |-> hit.value,
               L |-> [L1 EXCEPT !.tasteCursor = L1.tasteCursor + Len(hit.value)]]
         ELSE [ok |-> FALSE, value |-> <<>>, L |-> L1]

\* Lexer.taste: {value} or null, and the lexer afterwards
taste(L, regex) ==
  IF Falsy(regex) THEN [ok |-> FALSE, value |-> <<>>, L |-> L]
  ELSE
    LET L1 == [L EXCEPT !.tasteCursor = L.cursor]
    IN IF regex.t = "string"
         THEN IF \A i \in 0..(Len(regex.s) - 1) : regex.s[i + 1] = CharAt(L.str, L1.tasteCursor + i)
                THEN [ok |-> TRUE, value |-> regex.s,
                      L |-> [L1 EXCEPT !.tasteCursor = L1.tasteCursor + Len(regex.s)]]
                ELSE [ok |-> FALSE, value |-> <<>>, L |-> L1]
       ELSE IF regex.t = "regexp"
         THEN LET match == Exec(regex, L.str, L1.tasteCursor)
              IN IF match.found
                   THEN [ok |-> TRUE, value |-> match.value,
                         L |-> [L1 EXCEPT !.tasteCursor = L1.tasteCursor + Len(match.value)]]
                   ELSE [ok |-> FALSE, value |-> <<>>, L |-> L1]
       ELSE [ok |-> FALSE, value |-> <<>>, L |-> L1]

\* eat without the final this.cursor += value.length
eatLeavesCursor(L, regex) ==
  LET atLeast0(n) == IF n < 0 THEN 0 ELSE n
      token(L1, value) ==
        [tok |-> Token(value, L1.cursor, L1.cursor + Len(value), currentLine(L1),
                       atLeast0(L1.cursor - LastIndexOfNewline(L1.str, L1.cursor - 1) - 1),
                       atLeast0(lineIndent(L1.str, currentLine(L1)))),
         L |-> L1]
      after(result) ==
        IF result.ok
          THEN token([result.L EXCEPT !.cursor = result.L.tasteCursor - Len(result.value)],
                     result.value)
          ELSE [tok |-> Null, L |-> result.L]
  IN IF Falsy(regex) THEN [tok |-> Null, L |-> L] ELSE after(taste(L, regex))

\* Lexer.eat: a Token or null, and the lexer afterwards
eat(L, regex) ==
  LET atLeast0(n) == IF n < 0 THEN 0 ELSE n
      \* new Token({value, start, end, line, col, indent}); this.cursor += value.length
      \* const line = this.currentLine
      onLine(L1, value, line) ==
        [tok |-> Token(value, L1.cursor, L1.cursor + Len(value), line,
                       atLeast0(L1.cursor - LastIndexOfNewline(L1.str, L1.cursor - 1) - 1),
                       atLeast0(lineIndent(L1.str, line))),
         L |-> [L1 EXCEPT !.cursor = L1.cursor + Len(value)]]
      token(L1, value) == onLine(L1, value, currentLine(L1))
      \* this.cursor = this.tasteCursor - value.length
      after(result) ==
        IF result.ok
          THEN token([result.L EXCEPT !.cursor = result.L.tasteCursor - Len(result.value)],
                     result.value)
          ELSE [tok |-> Null, L |-> result.L]
  IN IF Falsy(regex) THEN [tok |-> Null, L |-> L] ELSE after(taste(L, regex))

(***************************************************************************)
(* Grammar: the items an author passes to new Shape(...), the ShapeExp     *)
(* built from each, and the Shape (a sequence of ShapeExp).                *)
(***************************************************************************)
AItem(k, p, name, items, hasMin, min, hasMax, max) ==
  [k |-> k, p |-> p, name |-> name, items |-> items,
   hasMin |-> hasMin, min |-> min, hasMax |-> hasMax, max |-> max, e |-> ""]

\* a string or a RegExp
AText(p) == AItem("text", p, "", <<>>, FALSE, 0, FALSE, 0)
\* a node class, by name
ARef(name) == AItem("ast", JSNull, name, <<>>, FALSE, 0, FALSE, 0)
\* a thunk () => item; name identifies the ShapeExp that holds it
ALazy(name, item) == AItem("lazy", JSNull, name, <<item>>, FALSE, 0, FALSE, 0)
\* a plain array of items
AOptions(items) == AItem("array", JSNull, "", items, FALSE, 0, FALSE, 0)
\* a Shape instance (already constructed)
ASubShape(shape) == AItem("shape", JSNull, "", shape, FALSE, 0, FALSE, 0)
\* a limit descriptor {min, max}
ALimit(hasMin, min, hasMax, max) == AItem("limit", JSNull, "", <<>>, hasMin, min, hasMax, max)
\* a limit descriptor that also carries a message, {min, max, e}
ALimitE(hasMin, min, hasMax, max, e) == [ALimit(hasMin, min, hasMax, max) EXCEPT !.e = e]
ANull == AItem("null", JSNull, "", <<>>, FALSE, 0, FALSE, 0)

\* ShapeExp.formatRegex
formatRegex(regex) == [regex EXCEPT !.caret = FALSE, !.y = TRUE]

\* isLimitExp taking only an object with min for a limit descriptor
isLimitExpMinOnly(exps, expIndex) ==
  /\ expIndex >= 1 /\ expIndex <= Len(exps)
  /\ exps[expIndex].k = "limit"
  /\ exps[expIndex].hasMin

\* Shape.constructor: isLimitExp
isLimitExp(exps, expIndex) ==
  /\ expIndex >= 1 /\ expIndex <= Len(exps)
  /\ exps[expIndex].k = "limit"
  /\ (exps[expIndex].hasMin \/ exps[expIndex].hasMax)

\* parseRightDelimeter looking at the next item only
parseRightDelimeterNext(exps, expIndex) ==
  IF expIndex + 1 <= Len(exps) /\ exps[expIndex + 1].k = "text" /\ ~Falsy(exps[expIndex + 1].p)
    THEN exps[expIndex + 1].p
    ELSE JSNull

\* Shape.constructor: parseRightDelimeter
parseRightDelimeter(exps, expIndex) ==
  LET j == expIndex + (IF isLimitExp(exps, expIndex + 1) THEN 2 ELSE 1)
  IN IF j <= Len(exps) /\ exps[j].k = "text" /\ ~Falsy(exps[j].p) THEN exps[j].p ELSE JSNull

RECURSIVE ShapeExp(_, _, _, _)
RECURSIVE ShapeFrom(_, _)

\* new ShapeExp({value, rightDelimeter, min, max})
ShapeExp(value, rightDelimeter, min, max) ==
  [TEXT_EXP |-> value.k = "text",
   AST_EXP |-> value.k = "ast",
   SUB_SHAPE_EXP |-> value.k = "shape",
   OPTION_EXP |-> value.k = "array",
   LAZY_EXP |-> value.k = "lazy",
   p |-> IF value.k = "text" /\ value.p.t = "regexp" THEN formatRegex(value.p) ELSE value.p,
   name |-> value.name,
   shape |-> IF value.k = "array" THEN ShapeFrom(value.items, 1)
             ELSE IF value.k = "shape" THEN value.items
             ELSE <<>>,
   thunk |-> IF value.k = "lazy" THEN value.items ELSE <<>>,
   rightDelimeter |-> IF rightDelimeter.t = "regexp" THEN formatRegex(rightDelimeter)
                      ELSE rightDelimeter,
   min |-> min,
   max |-> max,
   e |-> ""]

\* the loop of Shape.constructor from item i on
ShapeFrom(exps, i) ==
  IF i > Len(exps) THEN <<>>
  ELSE IF exps[i].k = "null" \/ isLimitExp(exps, i) THEN ShapeFrom(exps, i + 1)
  ELSE LET lim == isLimitExp(exps, i + 1)
           shapeExp == ShapeExp(exps[i], parseRightDelimeter(exps, i),
                                IF lim /\ exps[i + 1].hasMin THEN exps[i + 1].min ELSE 1,
                                IF lim /\ exps[i + 1].hasMax THEN exps[i + 1].max ELSE 1)
       \* Object.assign(shapeExp, parseLimitExp(i)) copies e as well
       IN <<[shapeExp EXCEPT !.e = IF lim THEN exps[i + 1].e ELSE ""]>> \o ShapeFrom(exps, i + 1)

\* new Shape(...exps)
Shape(exps) == ShapeFrom(exps, 1)

(***************************************************************************)
(* Nodes.                                                                  *)
(***************************************************************************)
\* the loop of $AST.constructor that collects this._tokens
RECURSIVE TokensOf(_, _)
TokensOf(exps, i) ==
  IF i > Len(exps) THEN <<>>
  ELSE (IF exps[i].T = "token" THEN <<exps[i]>>
        ELSE IF exps[i].T = "node" THEN exps[i].tokens
        ELSE <<>>) \o TokensOf(exps, i + 1)

\* new this({exps}) for the class called name
Node(name, exps) ==
  Item("node", name, exps, TokensOf(exps, 1), <<>>, 0, 0, 0, 0, 0, FALSE)

\* exp.TOKEN on an undefined or null child raises a TypeError
ConstructorThrows(exps) == \E i \in 1..Len(exps) : ~Truthy(exps[i])

\* $AST.text: this.tokens.map((t) => t.value).join("")
RECURSIVE JoinValues(_, _)
JoinValues(tokens, i) ==
  IF i > Len(tokens) THEN <<>> ELSE tokens[i].value \o JoinValues(tokens, i + 1)

text(n) == IF n.T = "token" THEN n.value ELSE JoinValues(n.tokens, 1)

\* $AST.contentTokens / $AST.contentExps
contentTokens(n) == SelectSeq(n.tokens, LAMBDA t : ~isWhiteSpace(t))

\* contentExps without its filter
contentExpsUnfiltered(n) == n.exps

contentExps(n) == SelectSeq(n.exps, LAMBDA e : e.T = "node" \/ (e.T = "token" /\ ~isWhiteSpace(e)))

\* the missing token without its isMissing flag
MissingTokenUnflagged(tok, shapeExp) == [tok EXCEPT !.shapeExp = shapeExp]

\* the missing token of $AST.parse: new Token(_.eat(new RegExp())) with
\* isMissing = true and shapeExp = the ShapeExp of the position
MissingToken(tok, shapeExp) == [tok EXCEPT !.isMissing = TRUE, !.shapeExp = shapeExp]

\* new ASTError(line, col, message)
ASTError(line, col, message) == [line |-> line, col |-> col, message |-> message]

\* validate reporting every missing token, with or without a message
validateEveryMissing(n) ==
  [j \in 1..Len(SelectSeq(n.tokens, LAMBDA t : t.isMissing)) |->
     ASTError(SelectSeq(n.tokens, LAMBDA t : t.isMissing)[j].line,
              SelectSeq(n.tokens, LAMBDA t : t.isMissing)[j].col,
              SelectSeq(n.tokens, LAMBDA t : t.isMissing)[j].shapeExp.e)]

\* the tokens for which validate pushes an ASTError:
\* t.isMissing && t.shapeExp.e
Diagnosed(tokens) == SelectSeq(tokens, LAMBDA t : t.isMissing /\ t.shapeExp.e # "")

\* $AST.validate: the array of ASTError it returns
validate(n) ==
  [j \in 1..Len(Diagnosed(n.tokens)) |->
     ASTError(Diagnosed(n.tokens)[j].line, Diagnosed(n.tokens)[j].col,
              Diagnosed(n.tokens)[j].shapeExp.e)]

(***************************************************************************)
(* Node kinds: the classes a grammar author declares.  driver names the    *)
(* class whose static parse the kind inherits.                             *)
(***************************************************************************)
Kind(name, driver, SHAPE, fallbackToFirstExp, allowIncompleteParse, incompleteParseThreshold) ==
  [name |-> name, driver |-> driver, SHAPE |-> SHAPE,
   fallbackToFirstExp |-> fallbackToFirstExp,
   allowIncompleteParse |-> allowIncompleteParse,
   incompleteParseThreshold |-> incompleteParseThreshold]

\* class name extends $AST { static SHAPE = SHAPE } with the static defaults
\* of $AST
DefaultKind(name, SHAPE) == Kind(name, "$AST", SHAPE, TRUE, FALSE, 1)

Plus == AText(Lit(<<"+">>))
Star == AText(Lit(<<"*">>))
Open == AText(Lit(<<"(">>))
Close == AText(Lit(<<")">>))

KindNames ==
  {"$NUMBER", "$ADD", "$MULTIPLY", "$GROUP", "$EXPR",
   "$STRICT_ADD", "$PARTIAL_ADD", "$REC_ADD", "$MSG_ADD", "$LOOSE_ADD", "$PARTIAL_ARGS",
   "$SUM", "$CHAIN",
   "$TERM", "$ARGS", "$UNTIL", "$PAIR", "$OPT_PAIR", "$BLOCK", "$OPT_BLOCK", "$LINE_BLOCK"}

\* the grammar of the README and of the "$AST README Examples" test, and
\* further kinds that exercise each policy, driver and expression kind
Kinds ==
  [name \in KindNames |->
    CASE name = "$NUMBER" -> DefaultKind(name, Shape(<<AText(Re("d+", TRUE, FALSE, FALSE))>>))
      [] name = "$ADD" -> DefaultKind(name, Shape(<<ARef("$NUMBER"), Plus, ARef("$NUMBER")>>))
      [] name = "$MULTIPLY" -> DefaultKind(name, Shape(<<ARef("$NUMBER"), Star, ARef("$NUMBER")>>))
      [] name = "$GROUP" ->
           DefaultKind(name, Shape(<<Open, ALazy("$GROUP.1", ARef("$EXPR")), Close>>))
      [] name = "$EXPR" ->
           DefaultKind(name, Shape(<<AOptions(<<ARef("$GROUP"), ARef("$ADD"),
                                                ARef("$MULTIPLY"), ARef("$NUMBER")>>)>>))
      \* fallbackToFirstExp = false
      [] name = "$STRICT_ADD" ->
           Kind(name, "$AST", Shape(<<ARef("$NUMBER"), Plus, ARef("$NUMBER")>>), FALSE, FALSE, 1)
      \* allowIncompleteParse = true, incompleteParseThreshold = 2
      [] name = "$PARTIAL_ADD" ->
           Kind(name, "$AST", Shape(<<ARef("$NUMBER"), Plus, ARef("$NUMBER")>>), TRUE, TRUE, 2)
      \* the recursive $ADD of the README: new Shape($NUMBER, "+", this)
      [] name = "$REC_ADD" ->
           Kind(name, "$AST", Shape(<<ARef("$NUMBER"), Plus, ARef("$REC_ADD")>>), TRUE, TRUE, 2)
      \* a position with a message for validate:
      \* ($NUMBER, "+", $NUMBER, {min: 1, e: "number expected"})
      [] name = "$MSG_ADD" ->
           Kind(name, "$AST", Shape(<<ARef("$NUMBER"), Plus, ARef("$NUMBER"),
                                      ALimitE(TRUE, 1, FALSE, 0, "number expected")>>),
                TRUE, TRUE, 2)
      \* allowIncompleteParse = true, incompleteParseThreshold = 1
      [] name = "$LOOSE_ADD" ->
           Kind(name, "$AST", Shape(<<ARef("$NUMBER"), Plus, ARef("$NUMBER")>>), TRUE, TRUE, 1)
      \* a repetition under allowIncompleteParse with threshold 2:
      \* ($NUMBER, {min: 1, max: 2}, "+")
      [] name = "$PARTIAL_ARGS" ->
           Kind(name, "$AST", Shape(<<ARef("$NUMBER"), ALimit(TRUE, 1, TRUE, 2), Plus>>),
                TRUE, TRUE, 2)
      \* left-recursive kinds
      [] name = "$SUM" ->
           Kind(name, "$AST_LEFT_RECURSIVE",
                Shape(<<ARef("$NUMBER"), Plus, ARef("$SUM")>>), TRUE, FALSE, 1)
      [] name = "$CHAIN" ->
           Kind(name, "$AST_LEFT_RECURSIVE",
                Shape(<<ARef("$NUMBER"), Plus, ARef("$NUMBER")>>), TRUE, FALSE, 1)
      \* an alternation of two kinds and a literal: ([$STRICT_ADD, $NUMBER, "+"])
      [] name = "$TERM" ->
           DefaultKind(name, Shape(<<AOptions(<<ARef("$STRICT_ADD"), ARef("$NUMBER"), Plus>>)>>))
      \* a repetition with a right delimiter: ($NUMBER, {min: 0, max: 2}, ")")
      [] name = "$ARGS" ->
           DefaultKind(name, Shape(<<Open, ARef("$NUMBER"), ALimit(TRUE, 0, TRUE, 2), Close>>))
      \* a repetition of an expression that also matches its right delimiter:
      \* (/\S/, {min: 2, max: 3}, "+")
      [] name = "$UNTIL" ->
           DefaultKind(name, Shape(<<AText(Re("S", FALSE, TRUE, FALSE)),
                                     ALimit(TRUE, 2, TRUE, 3), Plus>>))
      \* a sub-shape: (new Shape($NUMBER, "+"), $NUMBER)
      [] name = "$PAIR" ->
           DefaultKind(name, Shape(<<ASubShape(Shape(<<ARef("$NUMBER"), Plus>>)), ARef("$NUMBER")>>))
      \* an optional sub-shape that starts with an alternation of literals:
      \* (new Shape(["(", "+"], ")"), {min: 0}, "*")
      [] name = "$OPT_PAIR" ->
           DefaultKind(name, Shape(<<ASubShape(Shape(<<AOptions(<<Open, Plus>>), Close>>)),
                                     ALimit(TRUE, 0, FALSE, 0), Star>>))
      \* indentation blocks
      [] name = "$BLOCK" ->
           Kind(name, "$INDENT_BLOCK", Shape(<<ARef("$NUMBER")>>), TRUE, FALSE, 1)
      \* a block whose child has no required position: ($NUMBER, {min: 0})
      [] name = "$OPT_BLOCK" ->
           Kind(name, "$INDENT_BLOCK", Shape(<<ARef("$NUMBER"), ALimit(TRUE, 0, FALSE, 0)>>),
                TRUE, FALSE, 1)
      [] OTHER ->
           Kind(name, "$INDENT_BLOCK", Shape(<<ARef("$NUMBER"), Plus>>), TRUE, FALSE, 1)]

\* the rewriting done with new ShapeExp({value: this.value()}): the limits
\* and the right delimiter of the Lazy expression are lost
CurrentWithDefaults(e, L) ==
  IF e.LAZY_EXP /\ e.name \in L.resolved THEN ShapeExp(e.thunk[1], JSNull, 1, 1) ELSE e

\* the expression stored at a shape position, as rewritten in place by an
\* earlier resolution of its thunk
RECURSIVE Current(_, _)
Current(e, L) ==
  IF e.LAZY_EXP /\ e.name \in L.resolved
    THEN Current([ShapeExp(e.thunk[1], e.rightDelimeter, e.min, e.max) EXCEPT !.e = e.e], L)
    ELSE e

(***************************************************************************)
(* Parsing.  ShapeExp.parse returns [ok, list, L]: ok is FALSE for null,   *)
(* list is the returned array.  A driver returns [v, L]: v is a node, a    *)
(* token, null or undefined.  When L.thrown is set the call raised and     *)
(* the other fields mean nothing.                                          *)
(***************************************************************************)
RECURSIVE parseShapeExp(_, _)
RECURSIVE ShapeExpLoop(_, _, _, _, _)
RECURSIVE ShapeExpIteration(_, _, _, _, _)
RECURSIVE ShapeExpBody(_, _, _, _)
RECURSIVE ShapeExpResult(_, _, _, _, _)
RECURSIVE ParseOccurrence(_, _)
RECURSIVE AstOccurrence(_, _)
RECURSIVE ParseOptions(_, _, _)
RECURSIVE ParseOption(_, _, _)
RECURSIVE AstParse(_, _)
RECURSIVE AstLoop(_, _, _, _, _, _, _)
RECURSIVE AstResult(_, _, _, _, _, _, _)
RECURSIVE LeftRecursiveParse(_, _)
RECURSIVE LeftFirst(_, _)
RECURSIVE LeftLoop(_, _, _, _)
RECURSIVE LeftDelimiter(_, _, _, _)
RECURSIVE LeftFold(_, _, _, _)
RECURSIVE IndentBlockParse(_, _)
RECURSIVE IndentMode(_, _, _)
RECURSIVE IndentLoop(_, _, _, _)
RECURSIVE IndentLine(_, _, _, _, _)
RECURSIVE IndentChild(_, _, _, _, _)
RECURSIVE Dispatch(_, _)
RECURSIVE parse(_, _)

\* while (_.taste(WHITESPACE_REGEX)) results.push(_.eat(WHITESPACE_REGEX))
RECURSIVE EatWhitespace(_, _)
EatWhitespace(L, results) ==
  IF taste(L, WHITESPACE_REGEX).ok
    THEN EatWhitespace(eat(L, WHITESPACE_REGEX).L, Append(results, eat(L, WHITESPACE_REGEX).tok))
    ELSE [list |-> results, L |-> taste(L, WHITESPACE_REGEX).L]

\* the loop over the branches with no exit at the first success: the last
\* branch that succeeds wins
RECURSIVE ParseOptionsLastWins(_, _, _)
ParseOptionsLastWins(value, i, L) ==
  IF i > Len(value) THEN [truthy |-> FALSE, list |-> <<>>, L |-> L]
  ELSE LET r == parseShapeExp(Current(value[i], L), L)
           rest == ParseOptionsLastWins(value, i + 1, [r.L EXCEPT !.cursor = L.cursor])
       IN IF r.L.thrown \/ r.L.diverged THEN [truthy |-> FALSE, list |-> <<>>, L |-> r.L]
          ELSE IF rest.truthy \/ ~r.ok THEN rest
          ELSE [truthy |-> TRUE, list |-> r.list, L |-> r.L]

\* the loop over the branches of an OPTION_EXP, from branch i on; a branch
\* is a ShapeExp, so isLexable is false of it and its own parse is called
ParseOptions(value, i, L) ==
  IF i > Len(value) THEN [truthy |-> FALSE, list |-> <<>>, L |-> L]
  ELSE ParseOption(value, i, parseShapeExp(Current(value[i], L), L))

\* if (result) break, with r what the parse of branch i returned
ParseOption(value, i, r) ==
  CASE r.ok -> [truthy |-> TRUE, list |-> r.list, L |-> r.L]
    [] r.L.thrown \/ r.L.diverged -> [truthy |-> FALSE, list |-> <<>>, L |-> r.L]
    [] OTHER -> ParseOptions(value, i + 1, r.L)

\* result = _.eat(this.value)
EatOccurrence(r) == [truthy |-> Truthy(r.tok), list |-> <<r.tok>>, L |-> r.L]

\* the taste of SHAPE[0] of the referenced class, when that is a text
\* expression
LeadTaste(SHAPE, L) ==
  IF Len(SHAPE) > 0 /\ Current(SHAPE[1], L).TEXT_EXP
    THEN taste(L, Current(SHAPE[1], L).p)
    ELSE [ok |-> TRUE, value |-> <<>>, L |-> L]

\* a referenced node spliced into the results as a sub-shape is
NodeOccurrenceSpliced(r) ==
  [truthy |-> Truthy(r.v),
   list |-> IF Truthy(r.v) /\ r.v.T = "node" THEN r.v.exps ELSE <<r.v>>,
   L |-> r.L]

\* result = this.value.parse(_)
NodeOccurrence(r) == [L |-> r.L, truthy |-> Truthy(r.v), list |-> <<r.v>>]

\* the AST_EXP branch, with tasted what LeadTaste returned
AstOccurrence(name, tasted) ==
  IF ~tasted.ok THEN [truthy |-> FALSE, list |-> <<>>, L |-> tasted.L]
  ELSE NodeOccurrence(parse(name, tasted.L))

\* result = ast.exps: this[0] is undefined, so $SUB_SHAPE_AST.parse is
\* always called
SubShapeOccurrence(r) == [truthy |-> r.v.T = "node", list |-> r.v.exps, L |-> r.L]

\* one occurrence of the expression e (lines 557-599): truthy says whether
\* result is truthy, list is what results.push receives
ParseOccurrence(e, L) ==
  CASE e.TEXT_EXP -> EatOccurrence(eat(L, e.p))
    [] e.AST_EXP -> AstOccurrence(e.name, LeadTaste(Kinds[e.name].SHAPE, L))
    [] e.OPTION_EXP -> ParseOptions(e.shape, 1, L)
    [] e.SUB_SHAPE_EXP ->
         SubShapeOccurrence(AstParse(DefaultKind("$SUB_SHAPE_AST", e.shape), L))
    [] OTHER -> [truthy |-> FALSE, list |-> <<>>, L |-> L]

\* the for loop of ShapeExp.parse, at the test of its condition
ShapeExpLoop(e, L, startCursor, expIndex, results) ==
  IF ~(expIndex < e.max) THEN [ok |-> TRUE, list |-> results, L |-> L]
  ELSE ShapeExpIteration(e, startCursor, expIndex, results, taste(L, e.rightDelimeter))

\* the rest of the condition, with delim what _.taste(this.rightDelimeter)
\* returned, and the whitespace loop
ShapeExpIteration(e, startCursor, expIndex, results, delim) ==
  IF delim.ok /\ expIndex # 0 THEN [ok |-> TRUE, list |-> results, L |-> delim.L]
  ELSE ShapeExpBody(e, startCursor, expIndex, EatWhitespace(delim.L, results))

\* a Lazy expression calls its thunk and rewrites itself in place
Resolved(e, L) == IF e.LAZY_EXP THEN [L EXCEPT !.resolved = @ \cup {e.name}] ELSE L

\* the body of the loop after the whitespace loop returned ws
ShapeExpBody(e, startCursor, expIndex, ws) ==
  IF ws.L.thrown \/ ws.L.diverged THEN [ok |-> FALSE, list |-> <<>>, L |-> ws.L]
  ELSE ShapeExpResult(Current(e, Resolved(e, ws.L)), startCursor, expIndex, ws.list,
                      ParseOccurrence(Current(e, Resolved(e, ws.L)), Resolved(e, ws.L)))

\* lines 601-612 with the cursor restored on the break too
ShapeExpResultRestores(e, startCursor, expIndex, results, r) ==
  CASE r.truthy -> ShapeExpLoop(e, r.L, startCursor, expIndex + 1, results \o r.list)
    [] r.L.thrown \/ r.L.diverged -> [ok |-> FALSE, list |-> <<>>, L |-> r.L]
    [] expIndex >= e.min ->
         [ok |-> TRUE, list |-> results, L |-> [r.L EXCEPT !.cursor = startCursor]]
    [] OTHER -> [ok |-> FALSE, list |-> <<>>, L |-> [r.L EXCEPT !.cursor = startCursor]]

\* lines 601-612, with r the result of the occurrence
ShapeExpResult(e, startCursor, expIndex, results, r) ==
  CASE r.truthy -> ShapeExpLoop(e, r.L, startCursor, expIndex + 1, results \o r.list)
    [] r.L.thrown \/ r.L.diverged -> [ok |-> FALSE, list |-> <<>>, L |-> r.L]
    [] expIndex >= e.min -> [ok |-> TRUE, list |-> results, L |-> r.L]
    [] OTHER -> [ok |-> FALSE, list |-> <<>>, L |-> [r.L EXCEPT !.cursor = startCursor]]

\* ShapeExp.parse
parseShapeExp(e, L) == ShapeExpLoop(e, L, L.cursor, 0, <<>>)

\* exps.filter((e) => e.AST || e.value.trim().length).length
ContentCount(exps) ==
  Len(SelectSeq(exps, LAMBDA e : e.T = "node" \/ TrimLength(e.value) > 0))

\* the for loop of $AST.parse at shape position shapeIndex (1-based here)
AstLoop(K, L, startCursor, firstExpCursor, firstExp, exps, shapeIndex) ==
  IF shapeIndex > Len(K.SHAPE) THEN [v |-> Node(K.name, exps), L |-> L]
  ELSE AstResult(K, startCursor, firstExpCursor, firstExp, exps, shapeIndex,
                 parseShapeExp(Current(K.SHAPE[shapeIndex], L), L))

\* const isFirstAST = results && !shapeExp.TEXT_EXP && shapeIndex === 0
isFirstAST(K, shapeIndex, r) ==
  r.ok /\ ~Current(K.SHAPE[shapeIndex], r.L).TEXT_EXP /\ shapeIndex = 1

\* firstExp = results[0]; firstExpCursor = _.cursor, when isFirstAST: the
\* two variables after the position shapeIndex returned r
AstPosition(K, firstExpCursor, firstExp, shapeIndex, r) ==
  IF isFirstAST(K, shapeIndex, r)
    THEN [firstExp |-> IF Len(r.list) > 0 THEN r.list[1] ELSE Undefined,
          firstExpCursor |-> r.L.cursor]
    ELSE [firstExp |-> firstExp, firstExpCursor |-> firstExpCursor]

\* lines 141-158 with the fallback rewinding to the start of the input
AstResultRewinds(K, startCursor, firstExpCursor, firstExp, exps, shapeIndex, r) ==
  IF r.L.thrown \/ r.L.diverged THEN [v |-> Null, L |-> r.L]
  ELSE IF r.ok
    THEN AstLoop(K, r.L, startCursor,
                 AstPosition(K, firstExpCursor, firstExp, shapeIndex, r).firstExpCursor,
                 AstPosition(K, firstExpCursor, firstExp, shapeIndex, r).firstExp,
                 exps \o r.list, shapeIndex + 1)
  ELSE IF K.allowIncompleteParse /\ ContentCount(exps) >= K.incompleteParseThreshold
    THEN AstLoop(K, eat(r.L, Re("empty", FALSE, FALSE, FALSE)).L, startCursor,
                 firstExpCursor, firstExp,
                 Append(exps, MissingToken(eat(r.L, Re("empty", FALSE, FALSE, FALSE)).tok,
                                           Current(K.SHAPE[shapeIndex], r.L))),
                 shapeIndex + 1)
  ELSE IF K.fallbackToFirstExp
    THEN [v |-> firstExp, L |-> [r.L EXCEPT !.cursor = 0]]
  ELSE [v |-> Null, L |-> [r.L EXCEPT !.cursor = startCursor]]

\* lines 141-158, with r what the parse of the position returned; a result
\* with ok set never comes from a call that raised
AstResult(K, startCursor, firstExpCursor, firstExp, exps, shapeIndex, r) ==
  CASE r.ok ->
         AstLoop(K, r.L, startCursor,
                 AstPosition(K, firstExpCursor, firstExp, shapeIndex, r).firstExpCursor,
                 AstPosition(K, firstExpCursor, firstExp, shapeIndex, r).firstExp,
                 exps \o r.list, shapeIndex + 1)
    [] r.L.thrown \/ r.L.diverged -> [v |-> Null, L |-> r.L]
    [] K.allowIncompleteParse /\ ContentCount(exps) >= K.incompleteParseThreshold ->
         AstLoop(K, eat(r.L, Re("empty", FALSE, FALSE, FALSE)).L, startCursor,
                 firstExpCursor, firstExp,
                 Append(exps, MissingToken(eat(r.L, Re("empty", FALSE, FALSE, FALSE)).tok,
                                           Current(K.SHAPE[shapeIndex], r.L))),
                 shapeIndex + 1)
    [] K.fallbackToFirstExp ->
         [v |-> firstExp, L |-> [r.L EXCEPT !.cursor = firstExpCursor]]
    [] OTHER -> [v |-> Null, L |-> [r.L EXCEPT !.cursor = startCursor]]

\* $AST.parse for the kind K
AstParse(K, L) == AstLoop(K, L, L.cursor, L.cursor, Null, <<>>, 1)

\* the while loop of $AST_LEFT_RECURSIVE.parse
LeftLoop(K, L, leftCursor, left) ==
  LeftDelimiter(K, leftCursor, left, taste(L, Current(K.SHAPE[1], L).rightDelimeter))

\* class $RIGHT extends $AST { static SHAPE = new Shape(...SHAPE.slice(1)) }
RightKind(K) ==
  Kind("$RIGHT", "$AST", SubSeq(K.SHAPE, 2, Len(K.SHAPE)), TRUE, K.allowIncompleteParse, 1)

\* the condition of the loop, with delim what the taste returned
LeftDelimiter(K, leftCursor, left, delim) ==
  IF ~delim.ok THEN [v |-> left, L |-> delim.L]
  ELSE LeftFold(K, leftCursor, left, AstParse(RightKind(K), delim.L))

\* the body of the loop, with r what $RIGHT.parse returned
LeftFold(K, leftCursor, left, r) ==
  IF r.L.thrown \/ r.L.diverged THEN [v |-> Null, L |-> r.L]
  ELSE IF ~Truthy(r.v) THEN [v |-> left, L |-> [r.L EXCEPT !.cursor = leftCursor]]
  \* ...$right.exps of a token, or an undefined $left, raises
  ELSE IF r.v.T # "node" \/ ConstructorThrows(<<left>>)
    THEN [v |-> Null, L |-> [r.L EXCEPT !.thrown = TRUE]]
  ELSE LeftLoop(K, r.L, leftCursor, Node(K.name, <<left>> \o r.v.exps))

\* $AST_LEFT_RECURSIVE.parse for the kind K
LeftRecursiveParse(K, L) == LeftFirst(K, parseShapeExp(Current(K.SHAPE[1], L), L))

\* lines 663-670, with r what SHAPE[0].parse returned
LeftFirst(K, r) ==
  IF r.L.thrown \/ r.L.diverged THEN [v |-> Null, L |-> r.L]
  ELSE IF ~r.ok THEN [v |-> Null, L |-> r.L]
  ELSE LeftLoop(K, r.L, r.L.cursor, IF Len(r.list) > 0 THEN r.list[1] ELSE Undefined)

\* do _.cursor--; while (_.str[_.cursor] && !_.str[_.cursor].trim())
RECURSIVE WalkBack(_, _)
WalkBack(s, c) ==
  IF CharAt(s, c - 1) # Undef /\ IsSpaceChar(CharAt(s, c - 1)) THEN WalkBack(s, c - 1) ELSE c - 1

NonSpace == Re("S", FALSE, TRUE, FALSE)

\* const nextToken = _.eat(/\S/y) of isIndented, after the whitespace loop
NextToken(L) == eat(EatWhitespace(pushCursor(L), <<>>).L, NonSpace)

\* isIndented without its _.popCursor(): the cursor is put back, the
\* snapshot stays on the stack
isIndentedKeepsSnapshot(L, baseIndent) ==
  [yes |-> /\ Truthy(NextToken(L).tok)
           /\ baseIndent >= 0
           /\ NextToken(L).tok.indent > baseIndent,
   L |-> [NextToken(L).L EXCEPT !.cursor = L.cursor]]

\* isIndented of $INDENT_BLOCK.parse: the answer and the lexer afterwards
isIndented(L, baseIndent) ==
  [yes |-> /\ Truthy(NextToken(L).tok)
           /\ baseIndent >= 0
           /\ NextToken(L).tok.indent > baseIndent,
   L |-> popCursor(NextToken(L).L)]

\* the while loop of the block mode of $INDENT_BLOCK.parse
IndentLoop(K, L, baseIndent, exps) ==
  IF ~hasMoreToLex(L) THEN [exps |-> exps, L |-> L]
  ELSE IndentLine(K, L, baseIndent, exps, isIndented(L, baseIndent))

\* the rest of the condition, with ind what isIndented returned
IndentLine(K, L, baseIndent, exps, ind) ==
  IF ~ind.yes THEN [exps |-> exps, L |-> ind.L]
  ELSE IndentChild(K, L, baseIndent, exps, AstParse(K, ind.L))

\* the body of the loop, with r what super.parse returned
IndentChild(K, L, baseIndent, exps, r) ==
  IF r.L.thrown \/ r.L.diverged THEN [exps |-> exps, L |-> r.L]
  ELSE IF ~Truthy(r.v) THEN [exps |-> exps, L |-> r.L]
  \* ...$exp.exps of a token raises
  ELSE IF r.v.T # "node" THEN [exps |-> exps, L |-> [r.L EXCEPT !.thrown = TRUE]]
  \* a child that consumed nothing is parsed again, forever
  ELSE IF r.L.cursor = L.cursor THEN [exps |-> exps, L |-> [r.L EXCEPT !.diverged = TRUE]]
  ELSE IndentLoop(K, r.L, baseIndent, exps \o r.v.exps)

\* const prevToken = _.eat(/\S/y) after the walk back from the cursor
PrevToken(L) ==
  eat([pushCursor(L) EXCEPT !.cursor = WalkBack(L.str, L.cursor)], NonSpace)

\* the return of the same-line mode, with r what super.parse returned
SameLine(K, r) ==
  IF r.L.thrown \/ r.L.diverged THEN [v |-> Null, L |-> r.L]
  ELSE IF Truthy(r.v) THEN [v |-> Node(K.name, <<r.v>>), L |-> r.L]
  ELSE [v |-> Null, L |-> r.L]

\* the return of the block mode, with b what the loop collected
Block(K, b) ==
  IF b.L.thrown \/ b.L.diverged THEN [v |-> Null, L |-> b.L]
  ELSE IF Len(b.exps) = 0 THEN [v |-> Null, L |-> b.L]
  ELSE [v |-> Node(K.name, b.exps), L |-> b.L]

\* lines 704-729, with the cursor restored by _.popCursor()
IndentMode(K, prevToken, L) ==
  IF Truthy(prevToken) /\ prevToken.line = currentLine(L) THEN SameLine(K, AstParse(K, L))
  ELSE IF /\ Truthy(prevToken)
          /\ lineIndent(L.str, currentLine(L)) >= 0
          /\ lineIndent(L.str, currentLine(L)) <= prevToken.indent
    THEN [v |-> Null, L |-> L]
  ELSE Block(K, IndentLoop(K, L,
                           IF Truthy(prevToken) THEN prevToken.indent
                           ELSE lineIndent(L.str, currentLine(L)),
                           <<>>))

\* $INDENT_BLOCK.parse for the kind K
IndentBlockParse(K, L) == IndentMode(K, PrevToken(L).tok, popCursor(PrevToken(L).L))

\* the static parse of the driver class of the kind K
Dispatch(K, L) ==
  CASE K.driver = "$AST_LEFT_RECURSIVE" -> LeftRecursiveParse(K, L)
    [] K.driver = "$INDENT_BLOCK" -> IndentBlockParse(K, L)
    [] OTHER -> AstParse(K, L)

\* the static parse a kind inherits from its driver class
parse(name, L) == Dispatch(Kinds[name], L)

(***************************************************************************)
(* The state machine.  A behaviour is a Lexer over some input and the      *)
(* calls made on it.  last records the latest call: its name and           *)
(* arguments, the cursor and cursorStack at entry, and what it returned.   *)
(***************************************************************************)
Call(op, arg, kind, pos, cursor0, stack0, ok, value, res, list, thrown, diverged) ==
  [op |-> op, arg |-> arg, kind |-> kind, pos |-> pos, cursor0 |-> cursor0,
   stack0 |-> stack0, ok |-> ok, value |-> value, res |-> res, list |-> list,
   thrown |-> thrown, diverged |-> diverged]

NoCall == Call("new", JSNull, "", 0, 0, <<>>, FALSE, <<>>, Null, <<>>, FALSE, FALSE)

\* the Lexer object of the current state
This ==
  [str |-> str, cursor |-> cursor, tasteCursor |-> tasteCursor, cursorStack |-> cursorStack,
   resolved |-> resolved, thrown |-> FALSE, diverged |-> FALSE]

\* the Lexer object L becomes the state
Becomes(L) ==
  /\ cursor' = L.cursor
  /\ tasteCursor' = L.tasteCursor
  /\ cursorStack' = L.cursorStack
  /\ resolved' = L.resolved
  /\ str' = str

\* all sequences over the set S of length at most n
RECURSIVE SeqsUpTo(_, _)
SeqsUpTo(S, n) ==
  IF n = 0 THEN {<<>>}
  ELSE SeqsUpTo(S, n - 1) \cup {Append(s, c) : s \in {t \in SeqsUpTo(S, n - 1) : Len(t) = n - 1}, c \in S}

LexAlphabet == {"a", " ", "\n"}

\* inputs of the Lexer tests, and inputs with a tab or a carriage return
LexSamples ==
  {<<"a", "b", "c">>, <<" ", "a", "b">>, <<"a", "\n", " ", "b">>, <<"\t", "a">>}

LexInputs == SeqsUpTo(LexAlphabet, MaxLen) \cup LexSamples

\* the arguments passed to taste and eat
LexArgs ==
  {JSNull, JSUndefined, JSFalse, JSNumber(4), Lit(<<>>),
   Lit(<<"a">>), Lit(<<"a", "b">>), Lit(<<" ">>),
   ReLit(<<"a">>, TRUE, FALSE), ReLit(<<"b">>, FALSE, TRUE), ReLit(<<"a">>, FALSE, FALSE),
   NonSpace, WHITESPACE_REGEX, Re("empty", FALSE, FALSE, FALSE)}

ParseAlphabet == {"1", "+", " ", "\n"}

\* the inputs of the README, of the $AST test and of the scenarios of the
\* specification, and inputs with indented lines
ParseSamples ==
  {<<"4", "2">>, <<"2", "+", "3">>, <<"4", "*", "5">>,
   <<"3", " ", "+", " ", "4">>, <<"2", " ", "*", " ", "5">>,
   <<" ", "2", " ", "*", " ", "5">>,
   <<"(", "1", " ", "+", " ", "2", ")">>,
   <<"(", "1", " ", "+", " ", "2", ")", " ", "*", " ", "3">>,
   <<" ", "2", " ", " ", "+", " ", " ", " ", "3", " ">>,
   <<"1", " ", "+">>, <<"1", "+", "2", "+", "3">>, <<"1", "+", "2", "+">>,
   <<"1", " ", "+", " ", "2", " ", "+", " ", "3">>,
   <<" ", "1", "+", "2">>, <<"1", " ", "2", "+">>,
   <<"(", "1", " ", "2", ")">>, <<"(", "1", ")">>, <<"(", ")">>, <<"+", ")", "*">>,
   <<"(", "\n", " ", " ", "1", "\n", " ", " ", "2", "\n", "3">>,
   <<"(", "\n", " ", "1", "+">>, <<"(", "\n", " ", "1", " ", "*">>,
   <<"(", "\n", " ", "1", "\n", "+">>,
   <<"(", " ", "1", "+", " ", "2">>}

ParseInputs == SeqsUpTo(ParseAlphabet, MaxParseLen) \cup ParseSamples

\* the positions of the shapes of the kinds, for calls of ShapeExp.parse
ShapePositions == {<<name, i>> : name \in KindNames, i \in 1..3}

LazyNames == {"$GROUP.1"}

\* new Lexer(str)
Init ==
  /\ str \in LexInputs
  /\ cursor = 0
  /\ tasteCursor = 0
  /\ cursorStack = <<>>
  /\ resolved = {}
  /\ last = NoCall

\* lexer.cursor = k, as the tests do
SetCursor(k) ==
  /\ k \in 0..Len(str)
  /\ cursor' = k
  /\ UNCHANGED <<str, tasteCursor, cursorStack, resolved>>
  /\ last' = Call("cursor=", JSNull, "", 0, cursor, cursorStack, TRUE, <<>>, Null, <<>>, FALSE, FALSE)

Taste(p) ==
  LET returns(r) ==
        /\ Becomes(r.L)
        /\ last' = Call("taste", p, "", 0, cursor, cursorStack, r.ok, r.value, Null, <<>>,
                        FALSE, FALSE)
  IN returns(taste(This, p))

Eat(p) ==
  LET returns(r) ==
        /\ r.L.cursor <= Len(str) + MaxOver
        /\ Becomes(r.L)
        /\ last' = Call("eat", p, "", 0, cursor, cursorStack, Truthy(r.tok), <<>>, r.tok, <<>>,
                        FALSE, FALSE)
  IN returns(eat(This, p))

PushCursor ==
  /\ Len(cursorStack) < MaxStack
  /\ Becomes(pushCursor(This))
  /\ last' = Call("pushCursor", JSNull, "", 0, cursor, cursorStack, TRUE, <<>>, Null, <<>>,
                  FALSE, FALSE)

PopCursor ==
  /\ Becomes(popCursor(This))
  /\ last' = Call("popCursor", JSNull, "", 0, cursor, cursorStack, TRUE, <<>>, Null, <<>>,
                  FALSE, FALSE)

Next ==
  \/ \E k \in 0..Len(str) : SetCursor(k)
  \/ \E p \in LexArgs : Taste(p)
  \/ \E p \in LexArgs : Eat(p)
  \/ PushCursor
  \/ PopCursor

Spec == Init /\ [][Next]_vars

(***************************************************************************)
(* The cursor alone: assignments to cursor interleaved with pushCursor and *)
(* popCursor, as in the test "push/pop cursor".                            *)
(***************************************************************************)
PushCursorNested ==
  /\ Len(cursorStack) < MaxDepth
  /\ Becomes(pushCursor(This))
  /\ last' = Call("pushCursor", JSNull, "", 0, cursor, cursorStack, TRUE, <<>>, Null, <<>>,
                  FALSE, FALSE)

NextCursor ==
  \/ \E k \in 0..Len(str) : SetCursor(k)
  \/ PushCursorNested
  \/ PopCursor

SpecCursor == Init /\ [][NextCursor]_vars

(***************************************************************************)
(* The cursor anywhere: lexer.cursor is assigned a value before the start, *)
(* within or past the end of the input, then taste or eat is called once.  *)
(***************************************************************************)
InitBeyond ==
  /\ str \in LexInputs
  /\ cursor \in (-1)..(Len(str) + MaxBeyond)
  /\ tasteCursor = 0
  /\ cursorStack = <<>>
  /\ resolved = {}
  /\ last = NoCall

TasteOnce(p) == last.op = "new" /\ Taste(p)

EatOnce(p) ==
  LET returns(r) ==
        /\ Becomes(r.L)
        /\ last' = Call("eat", p, "", 0, cursor, cursorStack, Truthy(r.tok), <<>>, r.tok, <<>>,
                        FALSE, FALSE)
  IN last.op = "new" /\ returns(eat(This, p))

NextBeyond ==
  \/ \E p \in LexArgs : TasteOnce(p)
  \/ \E p \in LexArgs : EatOnce(p)

SpecBeyond == InitBeyond /\ [][NextBeyond]_vars

(***************************************************************************)
(* Line queries: one call of lineStart, lineEnd, lineIndent or             *)
(* linesInRange on a new Lexer.  arg records the arguments of the call,    *)
(* list its result.                                                        *)
(***************************************************************************)
\* "ab\n  cd\n    ef"
IndentedLines ==
  <<"a", "b", "\n", " ", " ", "c", "d", "\n", " ", " ", " ", " ", "e", "f">>

\* the inputs of the tests of lineIndent, lineStart, lineEnd and linesInRange
LineSamples ==
  {IndentedLines,
   <<" ", "a", "\n", " ", " ", "b", "\n", " ", " ", " ", " ", "c">>,
   <<"a", "b", "\n", "c", "d", "\n", "e", "f">>}

LineInputs == SeqsUpTo(LexAlphabet, MaxLen) \cup LineSamples

InitLines ==
  /\ str \in LineInputs
  /\ cursor = 0
  /\ tasteCursor = 0
  /\ cursorStack = <<>>
  /\ resolved = {}
  /\ last = NoCall

Answers(op, args, result) ==
  /\ last.op = "new"
  /\ UNCHANGED <<str, cursor, tasteCursor, cursorStack, resolved>>
  /\ last' = Call(op, args, "", 0, cursor, cursorStack, TRUE, <<>>, Null, result, FALSE, FALSE)

LineStart(line) == Answers("lineStart", <<line>>, <<lineStart(str, line)>>)

LineEnd(line) == Answers("lineEnd", <<line>>, <<lineEnd(str, line)>>)

LineIndent(line) == Answers("lineIndent", <<line>>, <<lineIndent(str, line)>>)

LinesInRange(start, end) ==
  Answers("linesInRange", <<start, end>>, linesInRange(str, start, end, 0))

NextLines ==
  \/ \E line \in 0..Len(lines(str)) : LineStart(line)
  \/ \E line \in 0..Len(lines(str)) : LineEnd(line)
  \/ \E line \in 0..Len(lines(str)) : LineIndent(line)
  \/ \E start \in 0..Len(str), end \in 0..Len(str) : LinesInRange(start, end)

SpecLines == InitLines /\ [][NextLines]_vars

(***************************************************************************)
(* Grammar authoring: new Shape(...exps) on author lists of literals,      *)
(* patterns, node classes, alternations and limit descriptors.             *)
(***************************************************************************)
AuthorItems ==
  {Plus, AText(Re("d+", TRUE, FALSE, FALSE)), ARef("$NUMBER"), AOptions(<<Open, Star>>),
   ALimit(TRUE, 0, TRUE, 2), ALimit(TRUE, 2, FALSE, 0), ALimit(FALSE, 0, TRUE, 3)}

AuthorLists == SeqsUpTo(AuthorItems, MaxItems)

InitShape ==
  /\ str = <<>>
  /\ cursor = 0
  /\ tasteCursor = 0
  /\ cursorStack = <<>>
  /\ resolved = {}
  /\ last = NoCall

\* new Shape(...exps): arg records the author list, list the Shape
NewShape(exps) ==
  /\ last.op = "new"
  /\ UNCHANGED <<str, cursor, tasteCursor, cursorStack, resolved>>
  /\ last' = Call("new Shape", exps, "", 0, cursor, cursorStack, TRUE, <<>>, Null, Shape(exps),
                  FALSE, FALSE)

NextShape == \E exps \in AuthorLists : NewShape(exps)

SpecShape == InitShape /\ [][NextShape]_vars

(***************************************************************************)
(* Parsing: a Lexer over an input, positioned at some cursor, on which one *)
(* parse is called; the grammar is shared by all Lexers, so its Lazy       *)
(* expressions may have been resolved before.                              *)
(***************************************************************************)
InitParse ==
  /\ str \in ParseInputs
  /\ cursor \in 0..Len(str)
  /\ tasteCursor = 0
  /\ cursorStack = <<>>
  /\ resolved \in SUBSET LazyNames
  /\ last = NoCall

\* a call that returns (or raises) leaves the lexer as it made it; a call
\* that never returns leaves nothing to observe but the call itself
Returns(L) == IF L.diverged THEN UNCHANGED <<str, cursor, tasteCursor, cursorStack, resolved>>
              ELSE Becomes(L)

\* name.parse(lexer)
Parse(name) ==
  LET returns(r) ==
        /\ Returns(r.L)
        /\ last' = Call("parse", JSNull, name, 0, cursor, cursorStack, Truthy(r.v), <<>>, r.v,
                        <<>>, r.L.thrown, r.L.diverged)
  IN /\ last.op = "new"
     /\ returns(parse(name, This))

\* name.SHAPE[i - 1].parse(lexer)
ParseShapeExp(name, i) ==
  LET returns(r) ==
        /\ Returns(r.L)
        /\ last' = Call("ShapeExp.parse", JSNull, name, i, cursor, cursorStack, r.ok, <<>>,
                        Null, r.list, r.L.thrown, r.L.diverged)
  IN /\ last.op = "new"
     /\ i <= Len(Kinds[name].SHAPE)
     /\ returns(parseShapeExp(Current(Kinds[name].SHAPE[i], This), This))

\* node.validate() on the node the parse returned
Validate ==
  /\ last.op = "parse"
  /\ ~last.thrown /\ ~last.diverged
  /\ last.res.T = "node"
  /\ UNCHANGED <<str, cursor, tasteCursor, cursorStack, resolved>>
  /\ last' = [last EXCEPT !.op = "validate", !.list = validate(last.res)]

NextParse ==
  \/ \E name \in KindNames : Parse(name)
  \/ \E pos \in ShapePositions : ParseShapeExp(pos[1], pos[2])
  \/ Validate

SpecParse == InitParse /\ [][NextParse]_vars

(***************************************************************************)
(* A parse under a caller's snapshot: the caller has called pushCursor at  *)
(* the start of the input and moved the cursor, then one kind is parsed.   *)
(***************************************************************************)
InitSnapshot ==
  /\ str \in ParseInputs
  /\ cursor \in 0..Len(str)
  /\ tasteCursor = 0
  /\ cursorStack \in {<<>>, <<0>>}
  /\ resolved = {}
  /\ last = NoCall

NextSnapshot == \E name \in KindNames : Parse(name)

SpecSnapshot == InitSnapshot /\ [][NextSnapshot]_vars

(***************************************************************************)
(* Properties.                                                             *)
(***************************************************************************)
\* the Lexer object as it was when the latest call was entered
Entry == [This EXCEPT !.cursor = last.cursor0, !.cursorStack = last.stack0]

\* the latest call is a parse that returned, and returned nothing
ReturnedNothing ==
  /\ ~last.thrown /\ ~last.diverged
  /\ \/ last.op = "parse" /\ last.res.T \in {"null", "undefined"}
     \/ last.op = "ShapeExp.parse" /\ ~last.ok

\* C1: whenever a parse invocation (ShapeExp.parse, or the parse of a kind
\* under any driver and policy) returns nothing, the cursor on return
\* equals the cursor at entry.
C1_FailureRestoresCursor == ReturnedNothing => cursor = last.cursor0

\* the kind and the expression the latest call was made on
LastKind == Kinds[last.kind]

LastExp == Current(LastKind.SHAPE[last.pos], Entry)

\* C2: some position after position i - 1 of the shape of K fails, parsing on
\* from the lexer L
RECURSIVE SomeLaterFails(_, _, _)
SomeLaterFails(K, L, i) ==
  IF i > Len(K.SHAPE) THEN FALSE
  ELSE LET r == parseShapeExp(Current(K.SHAPE[i], L), L)
       IN IF r.ok THEN SomeLaterFails(K, r.L, i + 1) ELSE TRUE

\* the first node of a list of children
FirstNode(list) ==
  IF \E i \in 1..Len(list) : list[i].T = "node"
    THEN list[CHOOSE i \in 1..Len(list) : list[i].T = "node" /\ \A j \in 1..(i - 1) : list[j].T # "node"]
    ELSE Null

\* the latest call is the parse of a kind of the base driver under
\* fallbackToFirstExp alone, whose position 0 is not a literal or pattern
\* and succeeded with a sub-node, and one of whose later positions failed
FallbackCase ==
  /\ last.op = "parse" /\ ~last.thrown /\ ~last.diverged
  /\ LastKind.driver = "$AST"
  /\ LastKind.fallbackToFirstExp /\ ~LastKind.allowIncompleteParse
  /\ ~Current(LastKind.SHAPE[1], Entry).TEXT_EXP
  /\ parseShapeExp(Current(LastKind.SHAPE[1], Entry), Entry).ok
  /\ FirstNode(parseShapeExp(Current(LastKind.SHAPE[1], Entry), Entry).list) # Null
  /\ SomeLaterFails(LastKind, parseShapeExp(Current(LastKind.SHAPE[1], Entry), Entry).L, 2)

\* C2: under fallbackToFirstExp, when position 0 (not a literal) succeeded and
\* a later position fails, $AST.parse returns the first sub-node produced by
\* position 0, a Node and never a whitespace token, and the cursor is where
\* the parse of position 0 left it.
C2_FallbackReturnsFirstNode ==
  FallbackCase =>
    /\ last.res.T = "node"
    /\ last.res = FirstNode(parseShapeExp(Current(LastKind.SHAPE[1], Entry), Entry).list)
    /\ cursor = parseShapeExp(Current(LastKind.SHAPE[1], Entry), Entry).L.cursor

\* the tokens follow one another in the input without a gap
Contiguous(tokens) == \A i \in 1..(Len(tokens) - 1) : tokens[i].end = tokens[i + 1].start

\* C3: for every Node returned by a driver, node.text is the input from the
\* start of its first token to the end of its last token, and its tokens are
\* contiguous and in input order.
C3_NodeTextIsInputSlice ==
  (last.op = "parse" /\ ~last.thrown /\ last.res.T = "node" /\ Len(last.res.tokens) > 0) =>
    /\ text(last.res) = Slice(str, last.res.tokens[1].start,
                              last.res.tokens[Len(last.res.tokens)].end)
    /\ Contiguous(last.res.tokens)

\* the index of the line that contains offset k: the number of newlines
\* before k
LineContaining(k) == Cardinality({i \in 0..(k - 1) : CharAt(str, i) = "\n"})

\* the offset of the first character of the line that contains offset k
LineStartBefore(k) ==
  IF \E i \in 0..(k - 1) : CharAt(str, i) = "\n"
    THEN 1 + (CHOOSE i \in 0..(k - 1) :
                CharAt(str, i) = "\n" /\ \A j \in (i + 1)..(k - 1) : CharAt(str, j) # "\n")
    ELSE 0

\* C4: every Token t produced by eat(p), p a literal or a Pattern (a RegExp
\* with the y or g flag, as taste requires), satisfies
\* input[t.start:t.end] = t.value, t.end - t.start = len(t.value), t.line is
\* the line containing t.start and t.col = t.start - lineStart(t.line); so a
\* Pattern is matched at the cursor, never at a later offset.
C4_TokenPositions ==
  (/\ last.op = "eat" /\ last.ok
   /\ last.arg.t = "string" \/ (last.arg.t = "regexp" /\ (last.arg.y \/ last.arg.g))) =>
    /\ Slice(str, last.res.start, last.res.end) = last.res.value
    /\ last.res.end - last.res.start = Len(last.res.value)
    /\ last.res.line = LineContaining(last.res.start)
    /\ last.res.col = last.res.start - LineStartBefore(last.res.start)

\* the latest call is ShapeExp.parse on an Alternation
AlternationCase ==
  /\ last.op = "ShapeExp.parse" /\ ~last.thrown /\ ~last.diverged
  /\ LastExp.OPTION_EXP /\ LastExp.max = 1

\* the lexer of an Alternation when its branches are tried: the entry lexer
\* after the whitespace loop
AtBranches == EatWhitespace(Entry, <<>>)

\* the parse of branch i alone, from there
Branch(i) == parseShapeExp(Current(LastExp.shape[i], AtBranches.L), AtBranches.L)

\* C5: an Alternation yields the result of the first branch, in list order,
\* whose own parse succeeds: its children and its cursor, as if no other
\* branch had been tried; it fails, with the cursor restored, only if every
\* branch fails.
C5_AlternationFirstSuccess ==
  AlternationCase =>
    IF \E i \in 1..Len(LastExp.shape) : Branch(i).ok
      THEN LET first == CHOOSE i \in 1..Len(LastExp.shape) :
                          Branch(i).ok /\ \A j \in 1..(i - 1) : ~Branch(j).ok
           IN /\ last.ok
              /\ last.list = AtBranches.list \o Branch(first).list
              /\ cursor = Branch(first).L.cursor
      ELSE ~last.ok /\ cursor = last.cursor0

\* an Alternation whose first branch failed, whose second succeeded and
\* moved the cursor, after leading whitespace
C5_Witness ==
  /\ AlternationCase /\ last.ok
  /\ Len(AtBranches.list) > 0
  /\ ~Branch(1).ok /\ Branch(2).ok
  /\ cursor > AtBranches.L.cursor

\* some child of the node n is a $MULTIPLY node with the content tokens vals
HasMultiply(n, vals) ==
  \E i \in 1..Len(n.exps) :
    /\ n.exps[i].T = "node" /\ n.exps[i].name = "$MULTIPLY"
    /\ [j \in 1..Len(contentTokens(n.exps[i])) |-> contentTokens(n.exps[i])[j].value] = vals

\* C6: with the grammar of the README, $EXPR.parse on "2 * 5" matches a
\* multiplication: the result contains a $MULTIPLY node with the content
\* tokens 2, *, 5 and the cursor ends at the end of the input.
C6_ReadmeMultiplication ==
  (/\ last.op = "parse" /\ last.kind = "$EXPR" /\ last.cursor0 = 0
   /\ str = <<"2", " ", "*", " ", "5">>) =>
    /\ last.res.T = "node"
    /\ HasMultiply(last.res, << <<"2">>, <<"*">>, <<"5">> >>)
    /\ cursor = Len(str)

\* C7: taste(p) never changes cursor or cursorStack, whether it succeeds or
\* fails and whatever p is.
C7_TasteKeepsCursor ==
  last.op = "taste" => cursor = last.cursor0 /\ cursorStack = last.stack0

\* a taste that matched and advanced tasteCursor, with a snapshot on the stack
C7_Witness ==
  /\ last.op = "taste" /\ last.ok
  /\ tasteCursor > cursor
  /\ Len(cursorStack) > 0

\* C8: eat(p) returns a token exactly when taste(p) succeeds at the same
\* cursor; with no token the cursor is unchanged, and with a token t the new
\* cursor is t.end = t.start + len(t.value).
C8_EatFollowsTaste ==
  last.op = "eat" =>
    /\ last.ok <=> taste(Entry, last.arg).ok
    /\ ~last.ok => cursor = last.cursor0
    /\ last.ok => /\ cursor = last.res.end
                  /\ last.res.end = last.res.start + Len(last.res.value)

\* an eat that returned a non-empty token
C8_Witness == last.op = "eat" /\ last.ok /\ Len(last.res.value) > 0 /\ cursor > last.cursor0

\* the number of spaces and newlines from offset k on
RECURSIVE BlankRun(_, _)
BlankRun(s, k) == IF CharAt(s, k) \in {" ", "\n"} THEN 1 + BlankRun(s, k + 1) ELSE 0

\* the argument p matches the input at offset k
MatchesAt(p, k) ==
  IF p.t = "string" THEN \A i \in 0..(Len(p.s) - 1) : p.s[i + 1] = CharAt(str, k + i)
  ELSE ReLen(p, str, k) >= 0 /\ (p.caret => k = 0)

\* the latest call is eat(p), p a literal or a sticky pattern, at a run of
\* spaces and newlines that is followed by text p matches
BlankThenMatch ==
  /\ last.op = "eat" /\ ~Falsy(last.arg)
  /\ last.arg.t = "string" \/ (last.arg.t = "regexp" /\ last.arg.y /\ last.arg.src # "empty")
  /\ BlankRun(str, last.cursor0) > 0
  /\ MatchesAt(last.arg, last.cursor0 + BlankRun(str, last.cursor0))

\* C9 as stated: taste and eat advance past the spaces and newlines at the
\* cursor before matching, so eat(p) at a run of spaces/newlines followed by
\* text p matches returns a token that starts at the first non-blank offset.
C9_SkipsLeadingWhitespace ==
  BlankThenMatch =>
    last.ok /\ last.res.start = last.cursor0 + BlankRun(str, last.cursor0)

\* C9 amended: taste and eat skip nothing: the match is attempted at the
\* cursor itself.  A token returned by eat starts at the entry cursor, a
\* successful taste leaves tasteCursor at the entry cursor plus the length
\* of the match, and at a run of spaces/newlines followed by text p matches,
\* eat(p) for a literal or sticky pattern p that does not match at the
\* cursor returns null and leaves the cursor where it was.
C9_MatchesAtCursor ==
  /\ (last.op = "eat" /\ last.ok) => last.res.start = last.cursor0
  /\ (last.op = "taste" /\ last.ok) => tasteCursor = last.cursor0 + Len(last.value)
  /\ (BlankThenMatch /\ ~MatchesAt(last.arg, last.cursor0)) =>
       ~last.ok /\ cursor = last.cursor0

\* eat(p) at blanks followed by a match of p, p not matching at the cursor
C9_Witness ==
  /\ BlankThenMatch
  /\ ~MatchesAt(last.arg, last.cursor0)
  /\ ~last.ok

\* C10: when the character at the cursor is a space, taste(lit) and eat(lit)
\* return null for every literal lit whose first character is not white
\* space, and the cursor is unchanged.
C10_LiteralFailsAtSpace ==
  (/\ last.op \in {"taste", "eat"}
   /\ last.arg.t = "string" /\ Len(last.arg.s) > 0 /\ ~IsSpaceChar(last.arg.s[1])
   /\ CharAt(str, last.cursor0) = " ") => ~last.ok /\ cursor = last.cursor0

\* taste or eat of a literal at a space that is followed by that literal
C10_Witness ==
  /\ last.op \in {"taste", "eat"}
  /\ last.arg.t = "string" /\ Len(last.arg.s) > 0 /\ ~IsSpaceChar(last.arg.s[1])
  /\ CharAt(str, last.cursor0) = " "
  /\ MatchesAt(last.arg, last.cursor0 + 1)
  /\ ~last.ok

\* the input s from its i-th character on, without its spaces and newlines
RECURSIVE Squeeze(_, _)
Squeeze(s, i) ==
  IF i > Len(s) THEN <<>>
  ELSE (IF s[i] \in {" ", "\n"} THEN <<>> ELSE <<s[i]>>) \o Squeeze(s, i + 1)

\* the values of the content tokens of the node n
ContentValues(n) == [j \in 1..Len(contentTokens(n)) |-> contentTokens(n)[j].value]

\* s from offset k on is the values vals[i], vals[i + 1], ... with runs of
\* spaces and newlines before, between and after them
RECURSIVE Spaced(_, _, _, _)
Spaced(s, k, vals, i) ==
  IF i > Len(vals) THEN k + BlankRun(s, k) = Len(s)
  ELSE /\ Slice(s, k + BlankRun(s, k), k + BlankRun(s, k) + Len(vals[i])) = vals[i]
       /\ Spaced(s, k + BlankRun(s, k) + Len(vals[i]), vals, i + 1)

\* the parse of the kind of the latest call on the input without its
\* spaces and newlines
Plain == parse(last.kind, [Lexer(Squeeze(str, 1)) EXCEPT !.resolved = resolved])

\* the latest call is the parse, from offset 0 and by the base or the
\* left-recursive driver, of an input w with spaces/newlines inserted before
\* and between its tokens, where the kind parses the whole of w
WhitespaceCase ==
  /\ last.op = "parse" /\ last.cursor0 = 0
  /\ LastKind.driver \in {"$AST", "$AST_LEFT_RECURSIVE"}
  /\ Squeeze(str, 1) # str
  /\ ~Plain.L.thrown /\ ~Plain.L.diverged
  /\ Plain.v.T = "node" /\ Plain.v.name = last.kind
  /\ Plain.L.cursor = Len(Squeeze(str, 1))
  /\ Spaced(str, 0, ContentValues(Plain.v), 1)

\* C11: whitespace between tokens is ignored by parsing: inserting runs of
\* spaces/newlines before and between the tokens of an input the kind parses
\* yields a node of the same kind with the same content token values.
C11_WhitespaceIgnored ==
  WhitespaceCase =>
    /\ ~last.thrown /\ ~last.diverged
    /\ last.res.T = "node" /\ last.res.name = last.kind
    /\ ContentValues(last.res) = ContentValues(Plain.v)


(***************************************************************************)
(* Arguments that are not lexable                                          *)
(***************************************************************************)
NotLexableArg(p) == p.t \notin {"string", "regexp"} \/ (p.t = "string" /\ Len(p.s) = 0)

\* C12: taste(x) and eat(x) return null and leave the cursor where it was
\* for every x that is neither a string nor a RegExp (null, undefined,
\* false, a number) and for the empty string.
C12_NotLexableReturnsNull ==
  (last.op \in {"taste", "eat"} /\ NotLexableArg(last.arg)) =>
    /\ ~last.ok
    /\ last.res = Null
    /\ cursor = last.cursor0

\* eat(4) and taste("") were called with the cursor past the start
C12_Witness ==
  /\ last.op \in {"taste", "eat"}
  /\ last.arg \in {JSNumber(4), Lit(<<>>), JSFalse, JSUndefined}
  /\ last.cursor0 > 0
  /\ ~last.ok


(***************************************************************************)
(* The cursor stack                                                        *)
(***************************************************************************)
\* the call left cursorStack as it found it
StackKept == cursorStack = last.stack0

\* the call took the newest snapshot off cursorStack and made it the cursor
PoppedNewest ==
  /\ cursor = last.stack0[Len(last.stack0)]
  /\ cursorStack = SubSeq(last.stack0, 1, Len(last.stack0) - 1)

\* C13: pushCursor and popCursor are a LIFO of cursor snapshots.  pushCursor
\* adds the cursor on top of the stack and leaves the cursor; an assignment
\* to the cursor leaves the stack; popCursor sets the cursor to the newest
\* snapshot still on the stack and removes it; popCursor on an empty stack
\* changes neither the cursor nor the stack.
C13_CursorStackIsLIFO ==
  /\ last.op = "pushCursor" => cursorStack = Append(last.stack0, last.cursor0) /\ cursor = last.cursor0
  /\ last.op = "cursor=" => StackKept
  /\ (last.op = "popCursor" /\ last.stack0 # <<>>) => PoppedNewest
  /\ (last.op = "popCursor" /\ last.stack0 = <<>>) => StackKept /\ cursor = last.cursor0

\* popCursor was called with two different snapshots on the stack and the
\* cursor somewhere else, and one snapshot is left
C13_Witness ==
  /\ last.op = "popCursor"
  /\ Len(last.stack0) = 2
  /\ last.stack0[1] # last.stack0[2]
  /\ last.cursor0 \notin {last.stack0[1], last.stack0[2]}
  /\ cursor = last.stack0[2]
  /\ cursorStack = <<last.stack0[1]>>


(***************************************************************************)
(* Lines                                                                   *)
(***************************************************************************)
\* the number of newlines of s before offset k
RECURSIVE NewlinesBefore(_, _)
NewlinesBefore(s, k) ==
  IF k <= 0 THEN 0
  ELSE NewlinesBefore(s, k - 1) + (IF CharAt(s, k - 1) = "\n" THEN 1 ELSE 0)

\* C14: with the cursor at any offset k, 0 <= k <= length of the input,
\* currentLine is the index i of a line of the input, never -1, with
\* lineStart(i) <= k <= lineEnd(i); an offset at the newline that ends a line
\* belongs to that line, not to the next one.
C14_CurrentLineContainsCursor ==
  (0 <= cursor /\ cursor <= Len(str)) =>
    LET line == currentLine(This)
    IN /\ line \in 0..(Len(lines(str)) - 1)
       /\ lineStart(str, line) <= cursor
       /\ cursor <= lineEnd(str, line)
       /\ line = NewlinesBefore(str, cursor)
       /\ CharAt(str, cursor) = "\n" => lineEnd(str, line) = cursor

\* the cursor was set to the newline that ends the second of three lines
C14_Witness ==
  /\ last.op = "cursor="
  /\ Len(lines(str)) >= 3
  /\ CharAt(str, cursor) = "\n"
  /\ currentLine(This) = 1
  /\ lineEnd(str, 1) = cursor


(***************************************************************************)
(* Partial parses                                                          *)
(***************************************************************************)
\* the children that count towards incompleteParseThreshold: nodes, and
\* tokens whose trimmed value is not empty
Accumulated(exps) ==
  Cardinality({j \in 1..Len(exps) :
                 exps[j].T = "node" \/ (exps[j].T = "token" /\ TrimLength(exps[j].value) > 0)})

\* the token that stands for the failed position g with the cursor at k
MissingAt(k, g) ==
  [Token(<<>>, k, k, 0, 0, 0) EXCEPT !.isMissing = TRUE, !.shapeExp = g]

\* line, col and indent of missing tokens left out
Unplaced(exps) ==
  [j \in 1..Len(exps) |->
     IF exps[j].T = "token" /\ exps[j].isMissing
       THEN [exps[j] EXCEPT !.line = 0, !.col = 0, !.indent = 0]
       ELSE exps[j]]

\* the positions of K from i on, each parsed by ShapeExp.parse; a failed
\* position is replaced by one missing token when the threshold is met and
\* the walk goes on from the same cursor.  missing counts these tokens; met
\* is FALSE when a position fails below the threshold or raises.
RECURSIVE PartialWalk(_, _, _, _, _)
PartialWalk(K, L, exps, i, missing) ==
  IF i > Len(K.SHAPE) THEN [met |-> TRUE, exps |-> exps, L |-> L, missing |-> missing]
  ELSE LET g == Current(K.SHAPE[i], L)
           r == parseShapeExp(g, L)
       IN IF r.L.thrown \/ r.L.diverged
            THEN [met |-> FALSE, exps |-> exps, L |-> r.L, missing |-> missing]
          ELSE IF r.ok THEN PartialWalk(K, r.L, exps \o r.list, i + 1, missing)
          ELSE IF Accumulated(exps) >= K.incompleteParseThreshold
            THEN PartialWalk(K, r.L, Append(exps, MissingAt(r.L.cursor, Current(K.SHAPE[i], r.L))),
                             i + 1, missing + 1)
          ELSE [met |-> FALSE, exps |-> exps, L |-> r.L, missing |-> missing]

Partial == PartialWalk(LastKind, Entry, <<>>, 1, 0)

PartialCase ==
  /\ last.op = "parse"
  /\ LastKind.driver = "$AST"
  /\ LastKind.allowIncompleteParse
  /\ Partial.met
  /\ Partial.missing > 0

\* C15: when a position of the shape fails in $AST.parse while
\* allowIncompleteParse is set and the children accumulated so far that are
\* nodes or non-blank tokens number at least incompleteParseThreshold, the
\* driver appends exactly one missing token (empty value, start = end = the
\* cursor, isMissing, shapeExp = the position), leaves the cursor, and goes
\* on with the next position; the parse returns a node of the kind.
C15_MissingTokenAppended ==
  PartialCase =>
    /\ ~last.thrown /\ ~last.diverged
    /\ last.res.T = "node"
    /\ last.res.name = last.kind
    /\ Unplaced(last.res.exps) = Partial.exps
    /\ cursor = Partial.L.cursor

\* $PARTIAL_ADD on "1 +": the children are 1, blank, + and one missing token
\* at the end of the input
C15_Witness ==
  /\ PartialCase
  /\ last.kind = "$PARTIAL_ADD"
  /\ str = <<"1", " ", "+">>
  /\ last.cursor0 = 0
  /\ Len(last.res.exps) = 4
  /\ last.res.exps[4].isMissing
  /\ last.res.exps[4].start = 3
  /\ [j \in 1..2 |-> contentTokens(last.res)[j].value] = <<(<<"1">>), (<<"+">>)>>
  /\ cursor = 3

\* $LOOSE_ADD on "1 2": the missing token stands between 1 and 2
C15_WitnessMiddle ==
  /\ PartialCase
  /\ last.kind = "$LOOSE_ADD"
  /\ Len(last.res.exps) >= 3
  /\ last.res.exps[2].isMissing
  /\ last.res.exps[Len(last.res.exps)].T = "node"


\* the positions of K from i on, up to the first one that fails: failed says
\* whether one did, matched counts the positions parsed before it
RECURSIVE FirstFailure(_, _, _)
FirstFailure(K, L, i) ==
  IF i > Len(K.SHAPE) THEN [failed |-> FALSE, raised |-> FALSE, matched |-> i - 1]
  ELSE LET r == parseShapeExp(Current(K.SHAPE[i], L), L)
       IN IF r.L.thrown \/ r.L.diverged
            THEN [failed |-> FALSE, raised |-> TRUE, matched |-> i - 1]
          ELSE IF r.ok THEN FirstFailure(K, r.L, i + 1)
          ELSE [failed |-> TRUE, raised |-> FALSE, matched |-> i - 1]

ThresholdCase ==
  /\ last.op = "parse"
  /\ LastKind.driver = "$AST"
  /\ LastKind.allowIncompleteParse
  /\ ~last.thrown /\ ~last.diverged
  /\ FirstFailure(LastKind, Entry, 1).failed

Accepted == last.res.T = "node" /\ last.res.name = last.kind

\* C16: incompleteParseThreshold is the least number of shape elements that
\* must have matched: under allowIncompleteParse with threshold T, when a
\* position of the shape fails, the parse returns a node of the kind if and
\* only if at least T positions of the shape matched before it.
C16_ThresholdCountsShapeElements ==
  ThresholdCase =>
    (Accepted <=> FirstFailure(LastKind, Entry, 1).matched >= LastKind.incompleteParseThreshold)

\* the same over the kinds whose positions each match one child
C16_SingleChildPositions ==
  (ThresholdCase /\ last.kind # "$PARTIAL_ARGS") =>
    (Accepted <=> FirstFailure(LastKind, Entry, 1).matched >= LastKind.incompleteParseThreshold)


(***************************************************************************)
(* Diagnostics                                                             *)
(***************************************************************************)
MissingTokens(n) == SelectSeq(n.tokens, LAMBDA t : t.isMissing)

\* the missing tokens whose shape position carries a message e
MissingWithMessage(n) == SelectSeq(n.tokens, LAMBDA t : t.isMissing /\ t.shapeExp.e # "")

\* C17: validate on a node returned by a partial parse reports exactly one
\* diagnostic per missing token of the node, each at the line and col of its
\* missing token; a node without missing tokens yields no diagnostics.
C17_DiagnosticPerMissingToken ==
  last.op = "validate" =>
    /\ Len(last.list) = Len(MissingTokens(last.res))
    /\ \A j \in 1..Len(last.list) :
         /\ last.list[j].line = MissingTokens(last.res)[j].line
         /\ last.list[j].col = MissingTokens(last.res)[j].col

\* C17, amended: validate reports exactly one diagnostic per missing token
\* whose shape position carries a message e, in the order of the tokens,
\* each at the line and col of its missing token (the line that contains
\* the token's start and the offset within it) and with the message e; a
\* missing token at a position without a message, and a node without
\* missing tokens, yield no diagnostic.
C17_DiagnosticPerMessage ==
  last.op = "validate" =>
    /\ Len(last.list) = Len(MissingWithMessage(last.res))
    /\ \A j \in 1..Len(last.list) :
         /\ last.list[j].line = LineContaining(MissingWithMessage(last.res)[j].start)
         /\ last.list[j].col = MissingWithMessage(last.res)[j].start
                                 - LineStartBefore(MissingWithMessage(last.res)[j].start)
         /\ last.list[j].message = MissingWithMessage(last.res)[j].shapeExp.e
    /\ MissingTokens(last.res) = <<>> => last.list = <<>>

\* $MSG_ADD on "1 +": one diagnostic at line 0, col 3
C17_Witness ==
  /\ last.op = "validate"
  /\ last.kind = "$MSG_ADD"
  /\ str = <<"1", " ", "+">>
  /\ last.cursor0 = 0
  /\ Len(MissingTokens(last.res)) = 1
  /\ last.list = <<ASTError(0, 3, "number expected")>>


(***************************************************************************)
(* Left-recursive kinds                                                    *)
(***************************************************************************)
OneTwoThree == <<"1", "+", "2", "+", "3">>

\* the result is the left-nested node ((1+2)+3) of the latest kind
LeftNested ==
  /\ ~last.thrown /\ ~last.diverged
  /\ last.res.T = "node" /\ last.res.name = last.kind
  /\ Len(contentExps(last.res)) = 3
  /\ contentExps(last.res)[1].T = "node"
  /\ contentExps(last.res)[1].name = last.kind
  /\ ContentValues(contentExps(last.res)[1]) = <<(<<"1">>), (<<"+">>), (<<"2">>)>>
  /\ contentExps(last.res)[3].T = "node"
  /\ ContentValues(contentExps(last.res)[3]) = <<(<<"3">>)>>
  /\ ContentValues(last.res) = <<(<<"1">>), (<<"+">>), (<<"2">>), (<<"+">>), (<<"3">>)>>

\* C18: the left-recursive driver chains to the left: the shape
\* [$NUMBER, "+", self] parsed on "1+2+3" gives the left-nested node
\* ((1+2)+3): the first child of the outer node is the node for 1+2, its
\* last operand is the node for 3, and its content tokens in pre-order are
\* 1, +, 2, +, 3.
C18_LeftAssociative ==
  (last.op = "parse" /\ last.kind = "$SUM" /\ str = OneTwoThree /\ last.cursor0 = 0) =>
    LeftNested

\* the same for the shape [$NUMBER, "+", $NUMBER]
C18_ChainFoldsLeft ==
  (last.op = "parse" /\ last.kind = "$CHAIN" /\ str = OneTwoThree /\ last.cursor0 = 0) =>
    LeftNested

\* what [$NUMBER, "+", self] gives on "1+2+3": 1, + and the node for 2+3
C18_SumNestsRight ==
  (last.op = "parse" /\ last.kind = "$SUM" /\ str = OneTwoThree /\ last.cursor0 = 0) =>
    /\ last.res.T = "node" /\ last.res.name = "$SUM"
    /\ Len(contentExps(last.res)) = 3
    /\ ContentValues(contentExps(last.res)[1]) = <<(<<"1">>)>>
    /\ contentExps(last.res)[3].name = "$SUM"
    /\ ContentValues(contentExps(last.res)[3]) = <<(<<"2">>), (<<"+">>), (<<"3">>)>>
    /\ ContentValues(last.res) = <<(<<"1">>), (<<"+">>), (<<"2">>), (<<"+">>), (<<"3">>)>>


(***************************************************************************)
(* Shape construction                                                      *)
(***************************************************************************)
\* the position in the Shape of the item at position i of the author list:
\* the number of items up to i that are not limit descriptors
ShapeIndex(exps, i) == Cardinality({j \in 1..i : exps[j].k # "limit"})

\* the position of the literal or pattern that follows item i, after at most
\* one limit descriptor; 0 when there is none
DelimiterAfter(exps, i) ==
  IF i + 1 <= Len(exps) /\ exps[i + 1].k = "text" THEN i + 1
  ELSE IF i + 2 <= Len(exps) /\ exps[i + 1].k = "limit" /\ exps[i + 2].k = "text" THEN i + 2
  ELSE 0

\* a literal as written; a pattern without its leading ^ and with the sticky
\* flag
Normalized(p) == IF p.t = "regexp" THEN [p EXCEPT !.caret = FALSE, !.y = TRUE] ELSE p

\* C19: Shape construction binds right delimiters without removing them:
\* when the item at position i is followed, after at most one limit
\* descriptor, by a literal or pattern at position j, that literal or pattern
\* is the rightDelimeter of item i's expression and is also an expression of
\* its own at its position in the Shape; an item not followed by a literal
\* or pattern has a null rightDelimeter.
C19_RightDelimiterKept ==
  last.op = "new Shape" =>
    \A i \in 1..Len(last.arg) :
      last.arg[i].k # "limit" =>
        /\ ShapeIndex(last.arg, i) <= Len(last.list)
        /\ IF DelimiterAfter(last.arg, i) > 0
             THEN /\ last.list[ShapeIndex(last.arg, i)].rightDelimeter
                       = Normalized(last.arg[DelimiterAfter(last.arg, i)].p)
                  /\ ShapeIndex(last.arg, DelimiterAfter(last.arg, i)) <= Len(last.list)
                  /\ ShapeIndex(last.arg, DelimiterAfter(last.arg, i)) = ShapeIndex(last.arg, i) + 1
                  /\ last.list[ShapeIndex(last.arg, i) + 1].TEXT_EXP
                  /\ last.list[ShapeIndex(last.arg, i) + 1].p
                       = Normalized(last.arg[DelimiterAfter(last.arg, i)].p)
             ELSE last.list[ShapeIndex(last.arg, i)].rightDelimeter = JSNull

\* new Shape($NUMBER, {min: 0, max: 2}, /^\d+/): the pattern is the
\* rightDelimeter of $NUMBER and the second expression of the Shape
C19_Witness ==
  /\ last.op = "new Shape"
  /\ last.arg = <<ARef("$NUMBER"), ALimit(TRUE, 0, TRUE, 2), AText(Re("d+", TRUE, FALSE, FALSE))>>
  /\ Len(last.list) = 2
  /\ last.list[1].rightDelimeter = Re("d+", FALSE, TRUE, FALSE)
  /\ last.list[2].p = Re("d+", FALSE, TRUE, FALSE)
  /\ last.list[2].rightDelimeter = JSNull

\* the limit descriptor that immediately follows item i, if any, gives its
\* min and max; 1 otherwise
MinOf(exps, i) ==
  IF i + 1 <= Len(exps) /\ exps[i + 1].k = "limit" /\ exps[i + 1].hasMin THEN exps[i + 1].min ELSE 1

MaxOf(exps, i) ==
  IF i + 1 <= Len(exps) /\ exps[i + 1].k = "limit" /\ exps[i + 1].hasMax THEN exps[i + 1].max ELSE 1

\* the expression e stands for the author's item
ExpressionOf(e, item) ==
  /\ e.TEXT_EXP <=> item.k = "text"
  /\ e.AST_EXP <=> item.k = "ast"
  /\ e.OPTION_EXP <=> item.k = "array"
  /\ e.name = item.name
  /\ item.k = "text" => e.p = Normalized(item.p)
  /\ item.k = "array" => Len(e.shape) = Len(item.items)

\* C20: Shape construction yields exactly one expression per item of the
\* author list that is not a limit descriptor, in the author's order; a
\* limit descriptor {min?, max?} sets the min and max of the item
\* immediately before it only, and adds no element of its own.
C20_OneExpressionPerItem ==
  last.op = "new Shape" =>
    /\ Len(last.list) = ShapeIndex(last.arg, Len(last.arg))
    /\ \A i \in 1..Len(last.arg) :
         last.arg[i].k # "limit" =>
           /\ ExpressionOf(last.list[ShapeIndex(last.arg, i)], last.arg[i])
           /\ last.list[ShapeIndex(last.arg, i)].min = MinOf(last.arg, i)
           /\ last.list[ShapeIndex(last.arg, i)].max = MaxOf(last.arg, i)

\* new Shape($NUMBER, {max: 3}, "+"): two expressions, $NUMBER with min 1 and
\* max 3, "+" with min 1 and max 1
C20_Witness ==
  /\ last.op = "new Shape"
  /\ last.arg = <<ARef("$NUMBER"), ALimit(FALSE, 0, TRUE, 3), Plus>>
  /\ Len(last.list) = 2
  /\ last.list[1].AST_EXP /\ last.list[1].min = 1 /\ last.list[1].max = 3
  /\ last.list[2].TEXT_EXP /\ last.list[2].min = 1 /\ last.list[2].max = 1


(***************************************************************************)
(* Content children                                                        *)
(***************************************************************************)
\* the children of a list that are nodes or tokens with non-blank text
ContentOf(list) ==
  SelectSeq(list, LAMBDA e : e.T = "node" \/ (e.T = "token" /\ TrimLength(e.value) > 0))

\* what each position of K from i on returns, parsed one after the other
\* from L; <<>> stands for the rest once a position fails or raises
RECURSIVE PositionLists(_, _, _)
PositionLists(K, L, i) ==
  IF i > Len(K.SHAPE) THEN <<>>
  ELSE LET r == parseShapeExp(Current(K.SHAPE[i], L), L)
       IN IF r.L.thrown \/ r.L.diverged \/ ~r.ok THEN <<>>
          ELSE <<r.list>> \o PositionLists(K, r.L, i + 1)

\* the latest call is the base driver on a kind whose positions do not
\* repeat, and every position matched
AllPositionsMatch ==
  /\ last.op = "parse"
  /\ LastKind.driver = "$AST"
  /\ ~last.thrown /\ ~last.diverged
  /\ \A i \in 1..Len(LastKind.SHAPE) : Current(LastKind.SHAPE[i], Entry).max = 1
  /\ Len(PositionLists(LastKind, Entry, 1)) = Len(LastKind.SHAPE)

\* C21: for a shape of k positions that do not repeat and all match, the
\* node the base driver returns has exactly k content children, the i-th
\* the one the i-th position produced, in the order of the shape; blank
\* tokens are left out of contentExps and kept in exps and text.
C21_OneContentChildPerPosition ==
  AllPositionsMatch =>
    /\ last.res.T = "node" /\ last.res.name = last.kind
    /\ Len(contentExps(last.res)) = Len(LastKind.SHAPE)
    /\ \A i \in 1..Len(LastKind.SHAPE) :
         <<contentExps(last.res)[i]>> = ContentOf(PositionLists(LastKind, Entry, 1)[i])
    /\ \A j \in 1..Len(contentExps(last.res)) :
         contentExps(last.res)[j].T = "token" => ~isWhiteSpace(contentExps(last.res)[j])
    /\ text(last.res) = Slice(str, last.cursor0, cursor)


\* no position of the latest kind is a sub-shape
NoSubShape ==
  \A i \in 1..Len(LastKind.SHAPE) : ~Current(LastKind.SHAPE[i], Entry).SUB_SHAPE_EXP

\* C21, amended: the same for a shape whose positions are literals,
\* patterns, node classes, thunks or alternations; a sub-shape position
\* contributes every child of its sub-shape.
C21_OneContentChildPerPlainPosition ==
  (AllPositionsMatch /\ NoSubShape) =>
    /\ last.res.T = "node" /\ last.res.name = last.kind
    /\ Len(contentExps(last.res)) = Len(LastKind.SHAPE)
    /\ \A i \in 1..Len(LastKind.SHAPE) :
         <<contentExps(last.res)[i]>> = ContentOf(PositionLists(LastKind, Entry, 1)[i])
    /\ \A j \in 1..Len(contentExps(last.res)) :
         contentExps(last.res)[j].T = "token" => ~isWhiteSpace(contentExps(last.res)[j])
    /\ text(last.res) = Slice(str, last.cursor0, cursor)

\* $ADD on "3 + 4": five children, of which three are content children,
\* and the text keeps the blanks
C21_Witness ==
  /\ AllPositionsMatch /\ NoSubShape
  /\ last.kind = "$ADD"
  /\ str = <<"3", " ", "+", " ", "4">>
  /\ last.cursor0 = 0
  /\ Len(last.res.exps) = 5
  /\ [j \in 1..3 |-> text(contentExps(last.res)[j])] = <<(<<"3">>), (<<"+">>), (<<"4">>)>>
  /\ text(last.res) = str


(***************************************************************************)
(* Line queries                                                            *)
(***************************************************************************)
\* the offset of the first character of line i: one past the i-th newline
FirstOfLine(i) ==
  IF i = 0 THEN 0
  ELSE 1 + CHOOSE k \in 0..(Len(str) - 1) : CharAt(str, k) = "\n" /\ LineContaining(k) = i - 1

\* the offset of the newline that ends line i, or the length of the input
EndOfLine(i) ==
  IF \E k \in 0..(Len(str) - 1) : CharAt(str, k) = "\n" /\ LineContaining(k) = i
    THEN CHOOSE k \in 0..(Len(str) - 1) : CharAt(str, k) = "\n" /\ LineContaining(k) = i
    ELSE Len(str)

LineCount == LineContaining(Len(str)) + 1

\* the lines whose [start, end] overlaps [a, b], in ascending order
RECURSIVE Overlapping(_, _, _)
Overlapping(a, b, i) ==
  IF i >= LineCount THEN <<>>
  ELSE (IF FirstOfLine(i) <= b /\ EndOfLine(i) >= a THEN <<i>> ELSE <<>>) \o Overlapping(a, b, i + 1)

\* lineStart(i) is the offset of the first character of line i, lineEnd(i)
\* is lineStart(i) plus the length of the line, lineIndent(i) counts the
\* blanks the line starts with, and linesInRange(a, b) lists every line
\* whose [start, end] overlaps [a, b]
LineQueriesAnswered ==
  /\ (last.op = "lineStart" /\ last.arg[1] < LineCount) => last.list = <<FirstOfLine(last.arg[1])>>
  /\ (last.op = "lineEnd" /\ last.arg[1] < LineCount) =>
       /\ last.list = <<EndOfLine(last.arg[1])>>
       /\ last.list[1] = FirstOfLine(last.arg[1]) + Len(lines(str)[last.arg[1] + 1])
  /\ (last.op = "lineIndent" /\ last.arg[1] < LineCount) =>
       /\ \A k \in 0..(last.list[1] - 1) : IsSpaceChar(CharAt(str, FirstOfLine(last.arg[1]) + k))
       /\ ~IsSpaceChar(CharAt(str, FirstOfLine(last.arg[1]) + last.list[1]))
          \/ FirstOfLine(last.arg[1]) + last.list[1] = EndOfLine(last.arg[1])
  /\ last.op = "linesInRange" => last.list = Overlapping(last.arg[1], last.arg[2], 0)

OnIndentedLines(op, args) == str = IndentedLines /\ last.op = op /\ last.arg = args

\* C22: for a Lexer over "ab\n  cd\n    ef", lineStart(2) = 7,
\* lineEnd(2) = 13, lineIndent(2) = 4 and linesInRange(3, 7) = [1, 2], where
\* lineStart(i) is the offset of the first character of line i, lineEnd(i) =
\* lineStart(i) + len(lines[i]), and linesInRange(a, b) lists every line
\* whose [start, end] overlaps [a, b].
C22_IndentedLinesExample ==
  /\ LineQueriesAnswered
  /\ OnIndentedLines("lineStart", <<2>>) => last.list = <<7>>
  /\ OnIndentedLines("lineEnd", <<2>>) => last.list = <<13>>
  /\ OnIndentedLines("lineIndent", <<2>>) => last.list = <<4>>
  /\ OnIndentedLines("linesInRange", <<3, 7>>) => last.list = <<1, 2>>

\* C22, amended: for a Lexer over "ab\n  cd\n    ef", lineStart(2) = 8,
\* lineEnd(2) = 14, lineIndent(2) = 4 and linesInRange(3, 7) = [1], with
\* lineStart, lineEnd and linesInRange as defined in the claim.
C22_IndentedLinesAnswers ==
  /\ LineQueriesAnswered
  /\ OnIndentedLines("lineStart", <<2>>) => last.list = <<8>>
  /\ OnIndentedLines("lineEnd", <<2>>) => last.list = <<14>>
  /\ OnIndentedLines("lineIndent", <<2>>) => last.list = <<4>>
  /\ OnIndentedLines("linesInRange", <<3, 7>>) => last.list = <<1>>

\* linesInRange(3, 7) was called on "ab\n  cd\n    ef"
C22_Witness == OnIndentedLines("linesInRange", <<3, 7>>) /\ last.list = <<1>>


(***************************************************************************)
(* Progress of the cursor                                                  *)
(***************************************************************************)
\* the latest call is a parse that returned a list, a node or a fallback
\* value
ReturnedSomething ==
  /\ last.op \in {"parse", "ShapeExp.parse"}
  /\ ~last.thrown /\ ~last.diverged
  /\ last.ok

\* C23: after every successful parse (ShapeExp.parse returning a list, or a
\* driver returning a node or a fallback value) the cursor is greater than
\* or equal to the cursor at entry.
C23_CursorNeverMovesBack == ReturnedSomething => cursor >= last.cursor0


\* a driver called past the start of the input returned its first
\* sub-node as fallback, with the cursor after it
C23_Witness ==
  /\ ReturnedSomething
  /\ last.op = "parse"
  /\ last.cursor0 > 0
  /\ last.res.T = "node" /\ last.res.name # last.kind
  /\ LastKind.driver = "$AST"
  /\ cursor > last.cursor0


(***************************************************************************)
(* The cursor past the end of the input                                    *)
(***************************************************************************)
\* a literal, or a RegExp with the sticky or the global flag
LiteralOrPattern(p) == p.t = "string" \/ (p.t = "regexp" /\ (p.y \/ p.g))

\* C24: taste and eat are total: for any cursor, also one past the end of
\* the input, and any argument they return a match or nothing and never
\* raise; with the cursor past the end of the input they return nothing for
\* every literal and every pattern.
C24_NothingPastTheEnd ==
  last.op \in {"taste", "eat"} =>
    /\ ~last.thrown
    /\ last.ok \/ (last.value = <<>> /\ last.res = Null)
    /\ (last.cursor0 > Len(str) /\ LiteralOrPattern(last.arg)) =>
         /\ ~last.ok
         /\ last.res = Null
         /\ cursor = last.cursor0

\* eat was called with a pattern that occurs in the input and the cursor
\* past the end
C24_Witness ==
  /\ last.op = "eat"
  /\ last.cursor0 > Len(str)
  /\ last.arg = ReLit(<<"a">>, TRUE, FALSE)
  /\ CharAt(str, 0) = "a"
  /\ ~last.ok


\* C24 as stated, a RegExp without the sticky or the global flag counted among
\* the patterns: past the end of the input taste and eat return nothing.
C24_NothingForAnyRegExp ==
  (last.op \in {"taste", "eat"} /\ last.cursor0 > Len(str)
     /\ last.arg.t \in {"string", "regexp"}) => ~last.ok


(***************************************************************************)
(* The grouped expression of the README                                    *)
(***************************************************************************)
GroupThenTimes == <<"(", "1", " ", "+", " ", "2", ")", " ", "*", " ", "3">>

\* $EXPR.parse was called at the start of "(1 + 2) * 3"
GroupCase ==
  /\ last.op = "parse" /\ last.kind = "$EXPR" /\ last.cursor0 = 0
  /\ str = GroupThenTimes

\* C25: with $GROUP = ["(", () => $EXPR, ")"] and $EXPR = [[$GROUP, $ADD,
\* $MULTIPLY, $NUMBER]], $EXPR.parse on "(1 + 2) * 3" returns an $EXPR node
\* whose only child is a $GROUP node matching "(1 + 2)" and leaves the cursor
\* before "* 3" (offset 7): the rest of the input is not consumed and no later
\* alternative contributes to the result.
C25_GroupStopsBeforeTimes ==
  GroupCase =>
    /\ last.ok
    /\ last.res.T = "node" /\ last.res.name = "$EXPR"
    /\ Len(last.res.exps) = 1
    /\ last.res.exps[1].T = "node" /\ last.res.exps[1].name = "$GROUP"
    /\ text(last.res) = Slice(GroupThenTimes, 0, 7)
    /\ cursor = 7

\* the call returned with the lazy reference of $GROUP resolved
C25_Witness == GroupCase /\ last.ok /\ "$GROUP.1" \in resolved /\ cursor < Len(str)

\* C25 as stated: the node $EXPR.parse returns is itself a $GROUP node
C25_ReturnsGroupNode ==
  GroupCase => (last.res.T = "node" /\ last.res.name = "$GROUP" /\ cursor = 7)


(***************************************************************************)
(* Lazy expressions                                                        *)
(***************************************************************************)
\* the lexer at the entry of the latest call, with the Lazy expressions in
\* names already rewritten by earlier parses
EntryWith(names) == [Entry EXCEPT !.tasteCursor = 0, !.resolved = names]

\* the expressions of the grammar that hold a thunk
LazyPositions ==
  {pos \in ShapePositions :
     /\ pos[2] <= Len(Kinds[pos[1]].SHAPE)
     /\ Kinds[pos[1]].SHAPE[pos[2]].LAZY_EXP}

\* the Lazy expression e after its thunk was called is the expression of
\* what the thunk returns, written with the min, max and rightDelimeter of e
RewrittenInPlace(e) ==
  /\ ~Current(e, [This EXCEPT !.resolved = {e.name}]).LAZY_EXP
  /\ Current(e, [This EXCEPT !.resolved = {e.name}]).AST_EXP = (e.thunk[1].k = "ast")
  /\ Current(e, [This EXCEPT !.resolved = {e.name}]).name = e.thunk[1].name
  /\ Current(e, [This EXCEPT !.resolved = {e.name}]).min = e.min
  /\ Current(e, [This EXCEPT !.resolved = {e.name}]).max = e.max
  /\ Current(e, [This EXCEPT !.resolved = {e.name}]).rightDelimeter = e.rightDelimeter

\* what a call of parse returns and where it leaves the lexer
Outcome(r) ==
  [v |-> r.v, cursor |-> r.L.cursor, cursorStack |-> r.L.cursorStack,
   thrown |-> r.L.thrown, diverged |-> r.L.diverged]

\* C26: the thunk of a Lazy expression is called at most once over any
\* sequence of parses: the first parse that reaches the expression rewrites
\* it in place, keeping min, max and rightDelimeter, after which it is no
\* longer Lazy, and a parse made after the rewriting returns what the same
\* parse returns when it is the one that calls the thunk.
C26_LazyResolvedOnce ==
  /\ \A pos \in LazyPositions : RewrittenInPlace(Kinds[pos[1]].SHAPE[pos[2]])
  /\ last.op = "parse" =>
       LET first == parse(last.kind, EntryWith({}))
           later == parse(last.kind, EntryWith(LazyNames))
       IN /\ Outcome(first) = Outcome(later)
          /\ last.res = later.v
          /\ (~last.diverged) => cursor = later.L.cursor
          /\ first.L.resolved \subseteq resolved
          /\ later.L.resolved = LazyNames

\* $GROUP.parse matched "(1 + 2)": entered with the thunk not yet called it
\* calls it, and the lexer records the rewriting
C26_Witness ==
  /\ last.op = "parse" /\ last.kind = "$GROUP" /\ last.ok
  /\ last.cursor0 = 0 /\ cursor = Len(str) /\ Len(str) = 7
  /\ parse("$GROUP", EntryWith({})).L.resolved = {"$GROUP.1"}
  /\ resolved = {"$GROUP.1"}


(***************************************************************************)
(* Repetition and its right delimiter                                      *)
(***************************************************************************)
\* the offset at which the element x of a result list starts
StartOf(x) ==
  IF x.T = "token" THEN x.start
  ELSE IF x.T = "node" /\ Len(x.tokens) > 0 THEN x.tokens[1].start
  ELSE -1

\* the input at offset q matches the right delimiter of the expression e
DelimiterAt(e, q) == q >= 0 /\ taste([Entry EXCEPT !.cursor = q], e.rightDelimeter).ok

\* ShapeExp.parse returned a list for a repeated expression that has a right
\* delimiter
RepeatedCase ==
  /\ last.op = "ShapeExp.parse" /\ last.ok
  /\ ~last.thrown /\ ~last.diverged
  /\ LastExp.max > 1
  /\ ~Falsy(LastExp.rightDelimeter)

\* C27: a repeated expression (max > 1) with a rightDelimeter never consumes
\* its delimiter: the first iteration is always attempted, and no later
\* occurrence is matched where the input, after the spaces and newlines that
\* follow the previous occurrence, matches the rightDelimeter.
C27_DelimiterNeverConsumed ==
  RepeatedCase =>
    /\ ContentOf(last.list) = <<>> => LastExp.min = 0
    /\ \A j \in 2..Len(ContentOf(last.list)) :
         ~DelimiterAt(LastExp, StartOf(ContentOf(last.list)[j]))


(***************************************************************************)
(* The cursor after a left-recursive parse                                 *)
(***************************************************************************)
\* the parse of a left-recursive kind returned a node of that kind: one
\* fold or more has succeeded
LeftReturned ==
  /\ last.op = "parse" /\ last.ok
  /\ ~last.thrown /\ ~last.diverged
  /\ LastKind.driver = "$AST_LEFT_RECURSIVE"
  /\ last.res.T = "node" /\ last.res.name = last.kind
  /\ Len(last.res.tokens) > 0

\* the end offset of the last token of x
EndOf(x) == IF x.T = "token" THEN x.end ELSE x.tokens[Len(x.tokens)].end

\* C28: the left-recursive driver returns with the cursor at the last good
\* position, the end offset of the last token of the node it returns; when
\* a tail attempt fails after one or more folds the cursor is the position
\* reached after the last fold, not an earlier one.
C28_CursorAfterLastFold == LeftReturned => cursor = EndOf(last.res)


(***************************************************************************)
(* The bounds of a repetition                                              *)
(***************************************************************************)
\* ShapeExp.parse returned a list for an expression each occurrence of which
\* is one token or one node (a sub-shape splices the children of its node)
CountedCase ==
  /\ last.op = "ShapeExp.parse" /\ last.ok
  /\ ~last.thrown /\ ~last.diverged
  /\ ~LastExp.SUB_SHAPE_EXP

\* C29: ShapeExp.parse matches its expression greedily between its bounds: a
\* returned list holds at least min and at most max occurrences of the
\* expression.
C29_BetweenMinAndMax ==
  CountedCase =>
    /\ Len(ContentOf(last.list)) >= LastExp.min
    /\ Len(ContentOf(last.list)) <= LastExp.max


(***************************************************************************)
(* Whitespace of a failed iteration                                        *)
(***************************************************************************)
\* ShapeExp.parse returned, a list or nothing, for an expression that is a
\* pattern or a reference to a kind
ShapeExpReturned ==
  /\ last.op = "ShapeExp.parse" /\ ~last.thrown /\ ~last.diverged
  /\ LastExp.TEXT_EXP \/ LastExp.AST_EXP

\* the offset at which the last occurrence of the returned list ends, the
\* cursor at entry when the list holds no occurrence
LastOccurrenceEnd ==
  LET found == ContentOf(last.list)
      x == found[Len(found)]
  IN IF found = <<>> THEN last.cursor0
     ELSE IF x.T = "node" /\ x.tokens = <<>> THEN cursor
     ELSE EndOf(x)

\* C30: whitespace consumed at the start of an iteration of ShapeExp.parse
\* whose expression then fails is discarded, both when the call fails and
\* when the repetition stops at its lower bound: the returned list does not
\* end with a whitespace token and the cursor is at the end of the last
\* successful occurrence (at the cursor of entry when the call fails).
C30_FailedIterationLeavesNothing ==
  ShapeExpReturned =>
    IF last.ok
      THEN /\ last.list # <<>> => ContentOf(<<last.list[Len(last.list)]>>) # <<>>
           /\ cursor = LastOccurrenceEnd
      ELSE cursor = last.cursor0


(***************************************************************************)
(* What a successful ShapeExp.parse returns                                *)
(***************************************************************************)
\* ShapeExp.parse returned a list
ListReturned == last.op = "ShapeExp.parse" /\ last.ok /\ ~last.thrown /\ ~last.diverged

Controlling == PrevToken(Entry).tok

\* $INDENT_BLOCK.parse returned, called with a controlling token on a line
\* before the line of the cursor
BlockMode ==
  /\ last.op = "parse" /\ ~last.thrown /\ ~last.diverged
  /\ LastKind.driver = "$INDENT_BLOCK"
  /\ Truthy(Controlling)
  /\ Controlling.line # currentLine(Entry)

\* the non-whitespace tokens of the returned node
Consumed == IF last.res.T = "node" THEN contentTokens(last.res) ELSE <<>>

\* C32: in block mode $INDENT_BLOCK.parse returns nothing when the indent of
\* the current line is at most the indent of the controlling token;
\* otherwise it consumes tokens of lines indented more than the controlling
\* token only, and returns nothing when no child was accumulated.
C32_BlockOfIndentedLines ==
  BlockMode =>
    /\ lineIndent(str, currentLine(Entry)) <= Controlling.indent => ~last.ok
    /\ \A i \in 1..Len(Consumed) : Consumed[i].indent > Controlling.indent
    /\ last.ok => Consumed # <<>>


(***************************************************************************)
(* The range of the cursor                                                 *)
(***************************************************************************)
\* the latest call is the parse of an indentation block
IndentBlockCalled == last.op = "parse" /\ LastKind.driver = "$INDENT_BLOCK"

\* the cursor at which $INDENT_BLOCK.parse looks for the controlling token,
\* after its walk back from the entry cursor
WalkedTo == WalkBack(str, last.cursor0)

\* C33: the cursor always satisfies 0 <= cursor <= length of the input, in
\* every state reached from a fresh lexer by any parse driver, and during
\* the walk back of the indentation-block driver to the controlling token,
\* also when the driver is invoked at cursor 0.
C33_CursorInRange ==
  /\ 0 <= cursor /\ cursor <= Len(str)
  /\ IndentBlockCalled => 0 <= WalkedTo /\ WalkedTo <= Len(str)


(***************************************************************************)
(* The cursorStack across a parse                                          *)
(***************************************************************************)
\* C34: every parse driver invocation leaves cursorStack exactly as it found
\* it: each pushCursor made inside $INDENT_BLOCK.parse (the lookup of the
\* controlling token and each isIndented) is matched by one popCursor
\* before the driver returns, so no snapshot leaks and no snapshot of the
\* caller is popped.
C34_StackAsFound == last.op = "parse" => cursorStack = last.stack0

\* an indentation block of two children or more, each of one number, was
\* parsed under a snapshot of the caller
C34_Witness ==
  /\ last.op = "parse" /\ last.ok
  /\ LastKind.driver = "$INDENT_BLOCK" /\ Len(LastKind.SHAPE) = 1
  /\ Controlling.line # currentLine(Entry)
  /\ last.res.T = "node" /\ Len(contentExps(last.res)) >= 2
  /\ last.stack0 = <<0>>


(***************************************************************************)
(* Termination                                                             *)
(***************************************************************************)
\* C35: every parse invocation over a finite input terminates (no pattern
\* of the grammar matches the empty string and no kind reaches itself
\* without consuming input): no call runs a loop that comes back to an
\* iteration with the cursor where it was, also when the repeated child
\* succeeds with no child at all.
C35_EveryParseReturns == last.op \in {"parse", "ShapeExp.parse"} => ~last.diverged

====
